---- MODULE Spec2Model ----
(***************************************************************************)
(* A model of the summaris news pipeline (backend/lambdas):                *)
(*   - queue_worker: the orchestrator that runs collector, preprocessor,   *)
(*     summarizer and postprocess for one item and handles failures;       *)
(*   - content_api: the on-demand detail request handler;                  *)
(*   - dispatcher: feed discovery, duplicate check and enqueueing;         *)
(*   - shared/url, summarizer, postprocess, collector: the pure helpers    *)
(*     the claims are about.                                               *)
(* Each part has its own specification over its own group of variables;    *)
(* the variables of the other groups keep their idle value.                *)
(***************************************************************************)
EXTENDS Integers, Sequences, FiniteSets, TLC

VARIABLES
  \* ---- queue_worker._run_pipeline, one run --------------------------
  payload,      \* the event handed to _run_pipeline
  config,       \* SUMMARY_TABLE_NAME / ALERT_TOPIC_ARN configured or not
  step,         \* index into STEP_DEFINITIONS of the next stage to invoke
  pc,           \* "run" | "returned" | "raised"
  current,      \* the local `current`: what the next stage receives
  invocations,  \* lambda_client.invoke calls made, in order
  raised,       \* the exception that left _run_pipeline (NoError if none)
  updateCalls,  \* table.update_item calls issued by _mark_detail_failure
  recStatus,    \* detail_status of the item's record in the summary table
  published,    \* sns_client.publish calls issued by _publish_alert
  \* ---- content_api detail requests on one item ------------------------
  rec,          \* the item's record in the summary table
  now,          \* time.time()
  ticks,        \* number of clock advances so far
  workerArn,    \* WORKER_LAMBDA_ARN configured or not
  reqs,         \* per POST /clusters/{id}/detail request: its position
  workers,      \* per request: the worker run it invoked
  \* ---- summarizer.handle then postprocess.put_summary, one run --------
  cPayload,     \* the event: detail flag, request_context.reason/.requested_at
  cExisting,    \* the item's record before the run
  cPc,          \* "summarize" | "store" | "done"
  cMode,        \* what the summarizer generated: "detail" | "lightweight"
  cSummary,     \* summaries.summary_long came out non-empty
  cStored,      \* the record put_summary wrote
  \* ---- dispatcher.handle runs, the raw queue, queue_worker deliveries --
  dTable,       \* SUMMARY_TABLE_NAME configured for the dispatcher
  dQueueUrl,    \* RAW_QUEUE_URL configured
  store,        \* item ids with a record in the summary table
  feed,         \* the entries (item ids) of the dispatcher run in progress
  dPos,         \* index of the next entry of the for loop
  dRuns,        \* dispatcher runs started
  entryLog,     \* what the loop body did on the entry processed last
  queue,        \* per item id: messages in the raw queue
  runs,         \* per item id: _run_pipeline calls made
  completed,    \* per item id: _run_pipeline calls that stored a summary
  \* ---- dispatcher._build_item on two entries of one source ------------
  iSource,      \* the source id
  iLinks,       \* the two entries' links
  iItems,       \* the items built so far, by entry
  \* ---- collector._request_with_retry, one call -------------------------
  fMax,         \* max_attempts
  fAttempt,     \* the local `attempt`
  fSleep,       \* the local `sleep`, in tenths of a second
  fSlept,       \* the time.sleep calls made, in order
  fOutcomes,    \* what each urlopen/read attempt did, in order
  fPc,          \* "run" | "returned" | "raised"
  fBase,        \* base_sleep, in tenths of a second
  fResult,      \* the attempt whose body is returned or whose error is raised
  \* ---- shared.url.normalize_url applied to a URL and to its result ------
  nUrl,         \* the URL given
  nResults,     \* the (normalized string, fingerprint) pairs returned so far
  \* ---- summarizer._parse_summary_text, one call --------------------------
  pText,        \* the model output given to _parse_summary_text
  pPos,         \* index of the next JSON candidate of the for loop
  pPc,          \* "loop" | "returned" | "raised"
  pResult,      \* the dict returned, or the exception that escaped
  \* ---- summarizer: quality enforcement -----------------------------------
  qArticle,     \* the article body
  qSummaries,   \* the candidate summaries, a dict
  qPc,          \* "start" | "checked" | "enforced"
  qOverlap,     \* what _has_article_overlap returned
  qOut,         \* what _enforce_summary_quality returned
  \* ---- queue_worker._run_pipeline with the stages' data ------------------
  eCurrent,     \* the local `current` of _run_pipeline: the envelope
  eStep,        \* index into STEP_DEFINITIONS of the next stage (0: not used)
  eIn,          \* the event each stage invoked so far was given
  eOut,         \* what each stage invoked so far returned
  ePut,         \* the item put_summary wrote (<<>> before)
  eFetched,     \* the article text the collector obtains ("" if none)
  eModel,       \* the parsed model output, if the summarizer asks the model
  eTranslation, \* what the translation service answers
  \* ---- collector: article extraction of one page -------------------------
  xBbcUrl,      \* "bbc.com/news/" in url
  xSite,        \* what _extract_bbc_article finds in the page
  xStructured,  \* what _extract_structured_article finds, cleaned
  xPage,        \* _html_to_text of the whole page
  xFeed,        \* the feed entry text (feed_entry_body)
  xPc,          \* "start" | "extracted" | "done" | "raised"
  xExtracted,   \* what _extract_article_text returned
  xBody,        \* normalized_body of collector.handle
  \* ---- collector._extract_bbc_article, one page --------------------------
  bBlocks,      \* the text-block elements of the page: the lines of each one's text
  bPc,          \* "start" | "done"
  bArticle,     \* what _extract_bbc_article returned: its lines (<<>> for None)
  \* ---- collector.handle: the byte cap on the article body ----------------
  tBody,        \* normalized_body before the byte cap: its characters
  tMax,         \* MAX_ARTICLE_BYTES
  tPc,          \* "start" | "done"
  tOut,         \* article_body returned: its characters
  \* ---- summarizer.handle: the providers it calls -------------------------
  sEvent,       \* the event summarizer.handle receives
  sProvider,    \* SUMMARIZER_PROVIDER
  sSecret,      \* what load_prompt meets
  sCloudflare,  \* what call_cloudflare meets
  sBedrock,     \* what call_bedrock meets
  sModel,       \* what the answering provider's text parses to
  sCalls,       \* load_prompt, call_cloudflare, call_bedrock, in the order called
  sPc,          \* "start" | "returned" | "raised"
  sResult,      \* the dict returned, or the exception raised
  \* ---- queue_worker.handle on a batch of queue records -------------------
  kRecords,     \* event["Records"]
  kIndex,       \* index of the record the for loop takes next
  kStarted,     \* indices of the records _run_pipeline was called for
  kInvoked,     \* <<record index, stage>> of each Lambda invoked
  kResults,     \* results: indices of the records whose run returned
  kPc,          \* "loop" | "returned" | "raised"
  kProcessed,   \* "processed" of the dict returned
  \* ---- postprocess.put_summary on an item that may have a record ---------
  wPayload,     \* the event postprocess.put_summary receives
  wExisting,    \* the record _load_existing_item returns, <<>> for {}
  wAnswer,      \* what the translation service answers, <<>> for nothing
  wPc,          \* "start" | "done"
  wItem,        \* the item put in the table
  \* ---- summarizer.call_bedrock -------------------------------------------
  gMax,         \* BEDROCK_MAX_ATTEMPTS
  gBase,        \* BEDROCK_BACKOFF_BASE_SECONDS
  gAttempt,     \* attempt
  gBackoff,     \* backoff
  gSlept,       \* the delays slept, in order
  gOutcomes,    \* what each invoke_model call met, in order
  gPc,          \* "run" | "returned" | "raised"
  gResult,      \* the attempt whose response is returned, or the exception raised
  \* ---- checker.handle on one source URL ----------------------------------
  hNow,         \* int(time.time())
  hRecord,      \* the record of the source URL in the status table, <<>> for none
  hRuns,        \* invocations of the checker so far
  hLast,        \* the last invocation that returned: what it read and decided
  hTrueAt       \* <<time>> of the last invocation that returned should_fetch = True

pipeVars == <<payload, config, step, pc, current, invocations, raised,
              updateCalls, recStatus, published>>

apiVars == <<rec, now, ticks, workerArn, reqs, workers>>

classVars == <<cPayload, cExisting, cPc, cMode, cSummary, cStored>>

ingestVars == <<dTable, dQueueUrl, store, feed, dPos, dRuns, entryLog, queue,
                runs, completed>>

idVars == <<iSource, iLinks, iItems>>

fetchVars == <<fMax, fAttempt, fSleep, fSlept, fOutcomes, fPc, fBase, fResult>>

normVars == <<nUrl, nResults>>

parseVars == <<pText, pPos, pPc, pResult>>

qualityVars == <<qArticle, qSummaries, qPc, qOverlap, qOut>>

envVars == <<eCurrent, eStep, eIn, eOut, ePut, eFetched, eModel, eTranslation>>

extractVars == <<xBbcUrl, xSite, xStructured, xPage, xFeed, xPc, xExtracted, xBody>>

bbcVars == <<bBlocks, bPc, bArticle>>

truncVars == <<tBody, tMax, tPc, tOut>>

provVars == <<sEvent, sProvider, sSecret, sCloudflare, sBedrock, sModel, sCalls, sPc, sResult>>

batchVars == <<kRecords, kIndex, kStarted, kInvoked, kResults, kPc, kProcessed>>

storeVars == <<wPayload, wExisting, wAnswer, wPc, wItem>>

bedVars == <<gMax, gBase, gAttempt, gBackoff, gSlept, gOutcomes, gPc, gResult>>

chkVars == <<hNow, hRecord, hRuns, hLast, hTrueAt>>

vars == <<pipeVars, apiVars, classVars, ingestVars, idVars, fetchVars, normVars,
          parseVars,
          qualityVars,
          envVars,
          extractVars,
          bbcVars,
          truncVars,
          provVars,
          batchVars,
          storeVars,
          bedVars,
          chkVars>>

\* The value a group of variables keeps while another part is being run.
PipeIdle ==
  /\ payload = 0 /\ config = 0 /\ step = 0 /\ pc = "idle" /\ current = 0
  /\ invocations = <<>> /\ raised = 0 /\ updateCalls = <<>>
  /\ recStatus = "idle" /\ published = <<>>
ApiIdle ==
  /\ rec = 0 /\ now = 0 /\ ticks = 0 /\ workerArn = FALSE
  /\ reqs = <<>> /\ workers = <<>>
ClassIdle ==
  /\ cPayload = 0 /\ cExisting = 0 /\ cPc = "idle" /\ cMode = ""
  /\ cSummary = FALSE /\ cStored = 0
IngestIdle ==
  /\ dTable = FALSE /\ dQueueUrl = FALSE /\ store = {} /\ feed = <<>>
  /\ dPos = 0 /\ dRuns = 0 /\ entryLog = <<>> /\ queue = <<>>
  /\ runs = <<>> /\ completed = <<>>
IdIdle ==
  /\ iSource = "" /\ iLinks = <<>> /\ iItems = <<>>
FetchIdle ==
  /\ fMax = 0 /\ fAttempt = 0 /\ fSleep = 0 /\ fSlept = <<>>
  /\ fOutcomes = <<>> /\ fPc = "idle" /\ fBase = 0 /\ fResult = 0
NormIdle ==
  /\ nUrl = 0 /\ nResults = <<>>
ParseIdle ==
  /\ pText = 0 /\ pPos = 0 /\ pPc = "idle" /\ pResult = 0
QualityIdle ==
  /\ qArticle = ""
  /\ qSummaries = 0
  /\ qPc = "idle"
  /\ qOverlap = FALSE
  /\ qOut = 0
EnvIdle ==
  /\ eCurrent = <<>>
  /\ eStep = 0
  /\ eIn = <<>>
  /\ eOut = <<>>
  /\ ePut = <<>>
  /\ eFetched = ""
  /\ eModel = <<>>
  /\ eTranslation = ""
ExtractIdle ==
  /\ xBbcUrl = FALSE
  /\ xSite = 0
  /\ xStructured = 0
  /\ xPage = 0
  /\ xFeed = 0
  /\ xPc = "idle"
  /\ xExtracted = 0
  /\ xBody = 0
BbcIdle ==
  /\ bBlocks = <<>>
  /\ bPc = "idle"
  /\ bArticle = <<>>
TruncIdle ==
  /\ tBody = <<>>
  /\ tMax = 0
  /\ tPc = "idle"
  /\ tOut = <<>>
ProvIdle ==
  /\ sEvent = <<>>
  /\ sProvider = ""
  /\ sSecret = ""
  /\ sCloudflare = ""
  /\ sBedrock = ""
  /\ sModel = <<>>
  /\ sCalls = <<>>
  /\ sPc = "idle"
  /\ sResult = <<>>
BatchIdle ==
  /\ kRecords = <<>>
  /\ kIndex = 0
  /\ kStarted = <<>>
  /\ kInvoked = <<>>
  /\ kResults = <<>>
  /\ kPc = "idle"
  /\ kProcessed = 0
StoreIdle ==
  /\ wPayload = <<>>
  /\ wExisting = <<>>
  /\ wAnswer = <<>>
  /\ wPc = "idle"
  /\ wItem = <<>>
BedIdle ==
  /\ gMax = 0
  /\ gBase = 0
  /\ gAttempt = 0
  /\ gBackoff = 0
  /\ gSlept = <<>>
  /\ gOutcomes = <<>>
  /\ gPc = "idle"
  /\ gResult = <<>>
ChkIdle ==
  /\ hNow = 0
  /\ hRecord = <<>>
  /\ hRuns = 0
  /\ hLast = <<>>
  /\ hTrueAt = <<>>

\* The groups idle together, for the specifications defined further down.
LaterIdle == NormIdle /\ ParseIdle /\ QualityIdle /\ EnvIdle /\ ExtractIdle /\ BbcIdle /\ TruncIdle /\ ProvIdle /\ BatchIdle /\ StoreIdle /\ BedIdle /\ ChkIdle

notPipe == <<apiVars, classVars, ingestVars, idVars, fetchVars, normVars,
             parseVars, qualityVars, envVars, extractVars, bbcVars,
             truncVars, provVars, batchVars, storeVars, bedVars,
             chkVars>>
notApi == <<pipeVars, classVars, ingestVars, idVars, fetchVars, normVars,
            parseVars, qualityVars, envVars, extractVars, bbcVars,
            truncVars, provVars, batchVars, storeVars, bedVars,
            chkVars>>
notClass == <<pipeVars, apiVars, ingestVars, idVars, fetchVars, normVars, parseVars,
              qualityVars, envVars, extractVars, bbcVars, truncVars,
              provVars, batchVars, storeVars, bedVars, chkVars>>
notIngest == <<pipeVars, apiVars, classVars, idVars, fetchVars, normVars, parseVars,
               qualityVars, envVars, extractVars, bbcVars, truncVars,
               provVars, batchVars, storeVars, bedVars, chkVars>>
notId == <<pipeVars, apiVars, classVars, ingestVars, fetchVars, normVars,
           parseVars, qualityVars, envVars, extractVars, bbcVars,
           truncVars, provVars, batchVars, storeVars, bedVars, chkVars>>
notFetch == <<pipeVars, apiVars, classVars, ingestVars, idVars, normVars, parseVars,
              qualityVars, envVars, extractVars, bbcVars, truncVars,
              provVars, batchVars, storeVars, bedVars, chkVars>>
notNorm == <<pipeVars, apiVars, classVars, ingestVars, idVars, fetchVars,
             parseVars, qualityVars, envVars, extractVars, bbcVars,
             truncVars, provVars, batchVars, storeVars, bedVars,
             chkVars>>
notParse == <<pipeVars, apiVars, classVars, ingestVars, idVars, fetchVars, normVars,
              qualityVars, envVars, extractVars, bbcVars, truncVars,
              provVars, batchVars, storeVars, bedVars, chkVars>>
notQuality == <<pipeVars, apiVars, classVars, ingestVars, idVars, fetchVars, normVars,
                parseVars, envVars, extractVars, bbcVars, truncVars,
                provVars, batchVars, storeVars, bedVars, chkVars>>
notEnv == <<pipeVars, apiVars, classVars, ingestVars, idVars, fetchVars, normVars,
            parseVars, qualityVars, extractVars, bbcVars, truncVars,
            provVars, batchVars, storeVars, bedVars, chkVars>>
notExtract == <<pipeVars, apiVars, classVars, ingestVars, idVars, fetchVars, normVars,
                parseVars, qualityVars, envVars, bbcVars, truncVars,
                provVars, batchVars, storeVars, bedVars, chkVars>>
notBbc == <<pipeVars, apiVars, classVars, ingestVars, idVars, fetchVars, normVars,
            parseVars, qualityVars, envVars, extractVars, truncVars,
            provVars, batchVars, storeVars, bedVars, chkVars>>
notTrunc == <<pipeVars, apiVars, classVars, ingestVars, idVars, fetchVars, normVars,
              parseVars, qualityVars, envVars, extractVars, bbcVars,
              provVars, batchVars, storeVars, bedVars, chkVars>>
notProv == <<pipeVars, apiVars, classVars, ingestVars, idVars, fetchVars, normVars,
             parseVars, qualityVars, envVars, extractVars, bbcVars,
             truncVars, batchVars, storeVars, bedVars, chkVars>>
notBatch == <<pipeVars, apiVars, classVars, ingestVars, idVars, fetchVars, normVars,
              parseVars, qualityVars, envVars, extractVars, bbcVars,
              truncVars, provVars, storeVars, bedVars, chkVars>>
notStore == <<pipeVars, apiVars, classVars, ingestVars, idVars, fetchVars, normVars,
              parseVars, qualityVars, envVars, extractVars, bbcVars,
              truncVars, provVars, batchVars, bedVars, chkVars>>
notBed == <<pipeVars, apiVars, classVars, ingestVars, idVars, fetchVars, normVars,
            parseVars, qualityVars, envVars, extractVars, bbcVars,
            truncVars, provVars, batchVars, storeVars, chkVars>>
notChk == <<pipeVars, apiVars, classVars, ingestVars, idVars, fetchVars, normVars,
            parseVars, qualityVars, envVars, extractVars, bbcVars,
            truncVars, provVars, batchVars, storeVars, bedVars>>

\* Every group but one idle.
EarlyIdle == PipeIdle /\ ApiIdle /\ ClassIdle /\ IngestIdle /\ IdIdle /\ FetchIdle
NormAlone == EarlyIdle /\ ParseIdle /\ QualityIdle /\ EnvIdle /\ ExtractIdle /\ BbcIdle /\ TruncIdle /\ ProvIdle /\ BatchIdle /\ StoreIdle /\ BedIdle /\ ChkIdle
ParseAlone == EarlyIdle /\ NormIdle /\ QualityIdle /\ EnvIdle /\ ExtractIdle /\ BbcIdle /\ TruncIdle /\ ProvIdle /\ BatchIdle /\ StoreIdle /\ BedIdle /\ ChkIdle
QualityAlone == EarlyIdle /\ NormIdle /\ ParseIdle /\ EnvIdle /\ ExtractIdle /\ BbcIdle /\ TruncIdle /\ ProvIdle /\ BatchIdle /\ StoreIdle /\ BedIdle /\ ChkIdle
EnvAlone == EarlyIdle /\ NormIdle /\ ParseIdle /\ QualityIdle /\ ExtractIdle /\ BbcIdle /\ TruncIdle /\ ProvIdle /\ BatchIdle /\ StoreIdle /\ BedIdle /\ ChkIdle
ExtractAlone == EarlyIdle /\ NormIdle /\ ParseIdle /\ QualityIdle /\ EnvIdle /\ BbcIdle /\ TruncIdle /\ ProvIdle /\ BatchIdle /\ StoreIdle /\ BedIdle /\ ChkIdle
BbcAlone == EarlyIdle /\ NormIdle /\ ParseIdle /\ QualityIdle /\ EnvIdle /\ ExtractIdle /\ TruncIdle /\ ProvIdle /\ BatchIdle /\ StoreIdle /\ BedIdle /\ ChkIdle
TruncAlone == EarlyIdle /\ NormIdle /\ ParseIdle /\ QualityIdle /\ EnvIdle /\ ExtractIdle /\ BbcIdle /\ ProvIdle /\ BatchIdle /\ StoreIdle /\ BedIdle /\ ChkIdle
ProvAlone == EarlyIdle /\ NormIdle /\ ParseIdle /\ QualityIdle /\ EnvIdle /\ ExtractIdle /\ BbcIdle /\ TruncIdle /\ BatchIdle /\ StoreIdle /\ BedIdle /\ ChkIdle
BatchAlone == EarlyIdle /\ NormIdle /\ ParseIdle /\ QualityIdle /\ EnvIdle /\ ExtractIdle /\ BbcIdle /\ TruncIdle /\ ProvIdle /\ StoreIdle /\ BedIdle /\ ChkIdle
StoreAlone == EarlyIdle /\ NormIdle /\ ParseIdle /\ QualityIdle /\ EnvIdle /\ ExtractIdle /\ BbcIdle /\ TruncIdle /\ ProvIdle /\ BatchIdle /\ BedIdle /\ ChkIdle
BedAlone == EarlyIdle /\ NormIdle /\ ParseIdle /\ QualityIdle /\ EnvIdle /\ ExtractIdle /\ BbcIdle /\ TruncIdle /\ ProvIdle /\ BatchIdle /\ StoreIdle /\ ChkIdle
ChkAlone == EarlyIdle /\ NormIdle /\ ParseIdle /\ QualityIdle /\ EnvIdle /\ ExtractIdle /\ BbcIdle /\ TruncIdle /\ ProvIdle /\ BatchIdle /\ StoreIdle /\ BedIdle

Min(a, b) == IF a <= b THEN a ELSE b
Max(a, b) == IF a >= b THEN a ELSE b

(***************************************************************************)
(* Strings: str.lower() and str.strip() (of spaces).                        *)
(***************************************************************************)
RECURSIVE Lower(_)
LowerChar(c) ==
  CASE c = "A" -> "a" [] c = "B" -> "b" [] c = "C" -> "c" [] c = "D" -> "d"
    [] c = "E" -> "e" [] c = "F" -> "f" [] c = "G" -> "g" [] c = "H" -> "h"
    [] c = "I" -> "i" [] c = "J" -> "j" [] c = "K" -> "k" [] c = "L" -> "l"
    [] c = "M" -> "m" [] c = "N" -> "n" [] c = "O" -> "o" [] c = "P" -> "p"
    [] c = "Q" -> "q" [] c = "R" -> "r" [] c = "S" -> "s" [] c = "T" -> "t"
    [] c = "U" -> "u" [] c = "V" -> "v" [] c = "W" -> "w" [] c = "X" -> "x"
    [] c = "Y" -> "y" [] c = "Z" -> "z" [] OTHER -> c

Lower(s) ==
  IF s = "" THEN ""
  ELSE LowerChar(SubSeq(s, 1, 1)) \o Lower(SubSeq(s, 2, Len(s)))

RECURSIVE Strip(_)
Strip(s) ==
  IF s = "" THEN ""
  ELSE IF SubSeq(s, 1, 1) = " " THEN Strip(SubSeq(s, 2, Len(s)))
  ELSE IF SubSeq(s, Len(s), Len(s)) = " " THEN Strip(SubSeq(s, 1, Len(s) - 1))
  ELSE s

DetailReasons == {"detail", "on_demand_summary", "manual_detail"}

(***************************************************************************)
(* queue_worker                                                            *)
(***************************************************************************)
\* A variant: preprocessor and summarizer swapped in the step table.
STEP_DEFINITIONS_Swapped == <<"collector", "summarizer", "preprocessor", "postprocess">>

STEP_DEFINITIONS == <<"collector", "preprocessor", "summarizer", "postprocess">>

\* Program constants of queue_worker/handler.py.
MessageCap == 512
ReasonCap == 500

\* Length of a stage's function ARN (an environment value).
ArnLen == 24

\* Lengths of the response bodies / library error texts the model draws from.
BodyLens == {30, 700}

NoError == [origin |-> "none", kind |-> "none", len |-> 0]

\* What lambda_client.invoke can give back for one stage.
OkResponses == {"json_object", "json_string_object", "empty"}
ErrResponses == {"client_error", "function_error", "non_json",
                 "json_string_non_json", "json_string_non_object",
                 "json_non_object"}

\* The payload a successful stage hands back, as _invoke_lambda returns it.
StageOutput(stage, resp) ==
  [stage |-> stage,
   form |-> CASE resp = "json_object" -> "object"
              [] resp = "json_string_object" -> "unwrapped"
              [] OTHER -> "empty_dict"]

CallerPayload == [stage |-> "caller", form |-> "payload"]

\* A variant: whatever a stage that did not fail sends back is handed on.
InvokeLambda_NoTypeCheck(stage, resp, bodyLen) ==
  IF resp \in {"client_error", "function_error"}
    THEN [ok |-> FALSE, value |-> CallerPayload,
          err |-> [origin |-> stage, kind |-> "RuntimeError", len |-> bodyLen]]
    ELSE [ok |-> TRUE, value |-> StageOutput(stage, resp), err |-> NoError]

\* _invoke_lambda: the result of one synchronous invocation.  bodyLen is the
\* length of the decoded response body (or of the client error's text).
InvokeLambda(stage, resp, bodyLen) ==
  CASE resp = "client_error" ->
         [ok |-> FALSE, value |-> CallerPayload,
          err |-> [origin |-> stage, kind |-> "ClientError", len |-> bodyLen]]
    [] resp = "function_error" ->
         [ok |-> FALSE, value |-> CallerPayload,
          err |-> [origin |-> stage, kind |-> "RuntimeError",
                   len |-> Len("Lambda ") + ArnLen + Len(" failed: ")
                           + Min(bodyLen, MessageCap)]]
    [] resp = "empty" ->
         [ok |-> TRUE, value |-> StageOutput(stage, resp), err |-> NoError]
    [] resp = "non_json" ->
         [ok |-> FALSE, value |-> CallerPayload,
          err |-> [origin |-> stage, kind |-> "RuntimeError",
                   len |-> Len("Lambda ") + ArnLen
                           + Len(" returned non-JSON payload")]]
    [] resp = "json_string_non_json" ->
         [ok |-> FALSE, value |-> CallerPayload,
          err |-> [origin |-> stage, kind |-> "RuntimeError",
                   len |-> Len("Lambda ") + ArnLen
                           + Len(" returned unsupported payload format")]]
    [] resp \in {"json_string_non_object", "json_non_object"} ->
         [ok |-> FALSE, value |-> CallerPayload,
          err |-> [origin |-> stage, kind |-> "RuntimeError",
                   len |-> Len("Lambda ") + ArnLen
                           + Len(" returned unexpected payload type: list")]]
    [] OTHER ->
         [ok |-> TRUE, value |-> StageOutput(stage, resp), err |-> NoError]

\* _is_detail_request
IsDetailRequest(p) ==
  IF p.flag THEN TRUE ELSE Lower(p.reason) \in DetailReasons

\* _detail_item_key: <<pk, sk>>, or <<>> for None.
DetailItemKey(p) ==
  IF p.source = "" \/ p.item = ""
    THEN <<>>
    ELSE <<"SOURCE#" \o p.source, "ITEM#" \o p.item>>

\* A variant: the reason is stored without the [:500] cut.
FailureReason_Uncut(stepName, err) ==
  [head |-> stepName \o " failed: ", errLen |-> err.len]

\* reason[:500] of f"{step_name} failed: {error}": the text kept of the fixed
\* head, and the number of characters kept of the error's text.
FailureReason(stepName, err) ==
  LET head == stepName \o " failed: "
  IN [head |-> SubSeq(head, 1, Min(Len(head), ReasonCap)),
      errLen |-> Max(0, Min(err.len, ReasonCap - Len(head)))]

ReasonLen(r) == Len(r.head) + r.errLen

\* A variant: the table's error is not caught and escapes _mark_detail_failure.
MarkDetailFailure_Uncaught(p, stepName, err, cfg, upd) ==
  IF ~cfg.table \/ p.source = "" \/ p.item = ""
    THEN [updated |-> FALSE, calls |-> <<>>, escaped |-> NoError]
    ELSE [updated |-> upd = "ok",
          calls |-> <<[key |-> <<"SOURCE#" \o p.source, "ITEM#" \o p.item>>,
                       status |-> "failed",
                       reason |-> [head |-> stepName \o " failed: ",
                                   errLen |-> Min(err.len, 480)],
                       applied |-> upd = "ok"]>>,
          escaped |-> IF upd = "ok" THEN NoError
                      ELSE [origin |-> "dynamodb", kind |-> "ClientError", len |-> 30]]

\* _mark_detail_failure: the update_item call it issues (none when the table
\* is not configured or the key cannot be resolved), its return value, and
\* the exception that escapes it (none: ClientError and BotoCoreError are
\* caught and logged).  upd is what the table answers, "ok" or "error".
MarkDetailFailure(p, stepName, err, cfg, upd) ==
  IF ~cfg.table
    THEN [updated |-> FALSE, calls |-> <<>>, escaped |-> NoError]
    ELSE IF DetailItemKey(p) = <<>>
      THEN [updated |-> FALSE, calls |-> <<>>, escaped |-> NoError]
      ELSE [updated |-> upd = "ok",
            calls |-> <<[key |-> DetailItemKey(p), status |-> "failed",
                         reason |-> FailureReason(stepName, err),
                         applied |-> upd = "ok"]>>,
            escaped |-> NoError]

\* _publish_alert with the message _handle_pipeline_failure builds: the
\* publish call it issues (none without a topic) and the exception that
\* escapes it (none).  pub is what SNS answers, "ok" or "error".
PublishAlert(p, stepName, err, cfg, pub) ==
  IF ~cfg.topic
    THEN [alerts |-> <<>>, escaped |-> NoError]
    ELSE [alerts |-> <<[subject |-> "Detail generation failure",
                        stage |-> stepName,
                        source |-> IF p.source = "" THEN "None" ELSE p.source,
                        item |-> IF p.item = "" THEN "None" ELSE p.item,
                        errLen |-> err.len,
                        delivered |-> pub = "ok"]>>,
          escaped |-> NoError]

\* A variant: the failure of any run is recorded and alerted.
HandlePipelineFailure_AnyRun(p, stepName, err, detailRequest, cfg, upd, pub) ==
  LET m == MarkDetailFailure(p, stepName, err, cfg, upd)
      a == PublishAlert(p, stepName, err, cfg, pub)
  IN [calls |-> m.calls, alerts |-> a.alerts, escaped |-> NoError]

\* _handle_pipeline_failure: the update_item and publish calls it makes and
\* the exception that escapes it.  The alert is published whether or not the
\* status update succeeded; nothing runs after a statement that raises.
HandlePipelineFailure(p, stepName, err, detailRequest, cfg, upd, pub) ==
  IF ~detailRequest
    THEN [calls |-> <<>>, alerts |-> <<>>, escaped |-> NoError]
    ELSE LET m == MarkDetailFailure(p, stepName, err, cfg, upd)
             a == PublishAlert(p, stepName, err, cfg, pub)
         IN IF m.escaped # NoError
              THEN [calls |-> m.calls, alerts |-> <<>>, escaped |-> m.escaped]
              ELSE [calls |-> m.calls, alerts |-> a.alerts, escaped |-> a.escaped]

Reasons == {"", "ingest", "detail", "DETAIL"}

Payloads ==
  [flag : BOOLEAN, reason : Reasons, source : {"", "bbc-world"},
   item : {"", "cluster-1"}]

PipeInit ==
  /\ payload \in Payloads
  /\ config \in [table : BOOLEAN, topic : BOOLEAN]
  /\ step = 1
  /\ pc = "run"
  /\ current = CallerPayload
  /\ invocations = <<>>
  /\ raised = NoError
  /\ updateCalls = <<>>
  /\ recStatus \in {"absent", "pending"}
  /\ published = <<>>

\* _run_pipeline, one pass of the loop whose invocation succeeds; after the
\* last stage the function returns `current`.
StageSucceeds ==
  /\ pc = "run"
  /\ step <= Len(STEP_DEFINITIONS)
  /\ \E resp \in OkResponses :
       LET stage == STEP_DEFINITIONS[step]
           res == InvokeLambda(stage, resp, 30)
       IN /\ invocations' = Append(invocations,
                [stage |-> stage, input |-> current, resp |-> resp, ok |-> TRUE,
                 output |-> res.value, err |-> NoError])
          /\ current' = res.value
  /\ step' = step + 1
  /\ pc' = IF step = Len(STEP_DEFINITIONS) THEN "returned" ELSE "run"
  /\ UNCHANGED <<payload, config, raised, updateCalls, recStatus, published>>
  /\ UNCHANGED notPipe

\* _run_pipeline, the pass whose invocation raises: the except clause runs
\* _handle_pipeline_failure on the ORIGINAL payload and re-raises the stage's
\* exception (an exception escaping the handler would replace it).
StageFails ==
  /\ pc = "run"
  /\ step <= Len(STEP_DEFINITIONS)
  /\ \E resp \in ErrResponses, bodyLen \in BodyLens,
        upd \in {"ok", "error"}, pub \in {"ok", "error"} :
       LET stage == STEP_DEFINITIONS[step]
           res == InvokeLambda(stage, resp, bodyLen)
           h == HandlePipelineFailure(payload, stage, res.err,
                                      IsDetailRequest(payload), config, upd, pub)
       IN /\ invocations' = Append(invocations,
                [stage |-> stage, input |-> current, resp |-> resp, ok |-> FALSE,
                 output |-> CallerPayload, err |-> res.err])
          /\ updateCalls' = updateCalls \o h.calls
          /\ recStatus' = IF h.calls # <<>> /\ h.calls[1].applied
                            THEN "failed" ELSE recStatus
          /\ published' = published \o h.alerts
          /\ raised' = IF h.escaped # NoError THEN h.escaped ELSE res.err
  /\ pc' = "raised"
  /\ UNCHANGED <<payload, config, step, current>>
  /\ UNCHANGED notPipe

PipeNext == StageSucceeds \/ StageFails

Init == PipeInit /\ ApiIdle /\ ClassIdle /\ IngestIdle /\ IdIdle /\ FetchIdle /\ LaterIdle

Spec == Init /\ [][PipeNext]_vars

(***************************************************************************)
(* Claims about the orchestrator (specification Spec)                      *)
(***************************************************************************)

\* C1: the stages are invoked in the order collector, preprocessor,
\* summarizer, postprocess; the first receives the caller's payload and each
\* later one the output of the stage before it; once a stage has failed no
\* later stage is invoked and that stage's error leaves _run_pipeline; a run
\* that returns has invoked all four.
C1_StagesInOrder ==
  LET order == <<"collector", "preprocessor", "summarizer", "postprocess">>
      n == Len(invocations)
  IN /\ n <= 4
     /\ \A i \in 1..n :
          /\ invocations[i].stage = order[i]
          /\ invocations[i].input =
               (IF i = 1 THEN CallerPayload ELSE invocations[i - 1].output)
          /\ (i < n => invocations[i].ok)
     /\ (pc = "returned" => n = 4 /\ invocations[4].ok /\ raised = NoError)
     /\ (pc = "raised" =>
           /\ n >= 1
           /\ ~invocations[n].ok
           /\ raised.origin = order[n]
           /\ ~ENABLED StageSucceeds
           /\ ~ENABLED StageFails)
     /\ (pc = "run" => raised = NoError)

\* C1 witness: the summarizer failed after collector and preprocessor ran.
C1_Witness ==
  /\ pc = "raised"
  /\ Len(invocations) = 3
  /\ invocations[2].input = invocations[1].output

\* The condition of C4 and C5: a detail-mode run, by flag or by reason.
DetailModePayload ==
  payload.flag \/ payload.reason \in {"detail", "on_demand_summary", "manual_detail"}

\* C4: when a stage fails in a detail-mode run with table and topic
\* configured and both ids in the payload, then by the time the error leaves
\* the orchestrator it has issued exactly one update_item for the item's key
\* setting detail_status = failed with a reason of at most 500 characters
\* that starts with the failed stage's name, and exactly one publish naming
\* the item; if the table accepted the update the record is failed.
C4_FailureMarkedAndAlerted ==
  (/\ pc = "raised"
   /\ DetailModePayload
   /\ config.table /\ config.topic
   /\ payload.source # "" /\ payload.item # "")
  =>
  LET failedStage == invocations[Len(invocations)].stage
  IN /\ Len(updateCalls) = 1
     /\ updateCalls[1].key = <<"SOURCE#" \o payload.source, "ITEM#" \o payload.item>>
     /\ updateCalls[1].status = "failed"
     /\ Len(updateCalls[1].reason.head) + updateCalls[1].reason.errLen <= 500
     /\ updateCalls[1].reason.head = failedStage \o " failed: "
     /\ (updateCalls[1].applied => recStatus = "failed")
     /\ Len(published) = 1
     /\ published[1].item = payload.item
     /\ published[1].stage = failedStage

\* C4 witness: a detail-mode failure whose error text had to be cut.
C4_Witness ==
  /\ pc = "raised"
  /\ DetailModePayload
  /\ config.table /\ config.topic
  /\ payload.source # "" /\ payload.item # ""
  /\ raised.len > 500
  /\ recStatus = "failed"
  /\ Len(published) = 1

\* C5: the error that leaves a failed detail-mode run is the failing stage's
\* own error, also when the status update or the alert publish failed; and
\* with a topic configured the alert is issued even when the update failed.
C5_StageErrorPropagates ==
  (pc = "raised" /\ DetailModePayload)
  =>
  /\ raised = invocations[Len(invocations)].err
  /\ raised.origin = invocations[Len(invocations)].stage
  /\ (config.topic => Len(published) = 1)

\* C5 witness: both the status update and the alert publish failed.
C5_Witness ==
  /\ pc = "raised"
  /\ DetailModePayload
  /\ Len(updateCalls) = 1 /\ ~updateCalls[1].applied
  /\ Len(published) = 1 /\ ~published[1].delivered
  /\ raised.kind = "RuntimeError"


(***************************************************************************)
(* content_api: POST /clusters/{id}/detail on one item, with the worker    *)
(* runs the requests start.                                                *)
(***************************************************************************)
DETAIL_TTL_SECONDS == 43200
DETAIL_PENDING_TIMEOUT_SECONDS == 900

\* Number of detail requests made on the item, and of clock advances.
NumRequests == 3
MaxTicks == 2
\* The client's polling period.
PollInterval == 450

Requests == 1..NumRequests
TickSteps == {PollInterval, DETAIL_PENDING_TIMEOUT_SECONDS, DETAIL_TTL_SECONDS}

\* An absent attribute (None).
None == -1

\* Records as put_summary leaves them: after an ingest store, after a detail
\* run that produced a summary, and after a detail run whose summary came out
\* empty.  summary is "summaries.summary_long is non-empty".
IngestRecord ==
  [status |-> "partial", requestedAt |-> None, expiresAt |-> None,
   summary |-> FALSE, failureReason |-> "", failedAt |-> None]
DetailReadyRecord ==
  [status |-> "ready", requestedAt |-> 0, expiresAt |-> DETAIL_TTL_SECONDS,
   summary |-> TRUE, failureReason |-> "", failedAt |-> None]
DetailEmptyRecord ==
  [status |-> "partial", requestedAt |-> 0, expiresAt |-> None,
   summary |-> FALSE, failureReason |-> "", failedAt |-> None]

NoRequest == [pc |-> "idle", had |-> FALSE, timedOut |-> FALSE,
              started |-> FALSE, resp |-> ""]
NoWorker == [st |-> "none", requestedAt |-> None]

ApiInit ==
  /\ rec \in {IngestRecord, DetailReadyRecord, DetailEmptyRecord}
  /\ now = 0
  /\ ticks = 0
  /\ workerArn \in BOOLEAN
  /\ reqs = [r \in Requests |-> NoRequest]
  /\ workers = [r \in Requests |-> NoWorker]

\* _is_detail_expired
IsDetailExpired(record, t) ==
  IF DETAIL_TTL_SECONDS <= 0 THEN FALSE
  ELSE IF record.expiresAt = None THEN FALSE
  ELSE record.expiresAt <= t

\* The timeout test of _handle_detail_request on the detail_requested_at the
\* record carries.
PendingTimedOut(record, t) ==
  /\ record.requestedAt # None
  /\ DETAIL_PENDING_TIMEOUT_SECONDS > 0
  /\ record.requestedAt + DETAIL_PENDING_TIMEOUT_SECONDS <= t

\* ConditionExpression of _start_detail_generation's update_item.
PendingCondition(record) ==
  record.status = "none" \/ record.status # "pending"

\* What _handle_detail_request does on the record it loaded: answer at once,
\* mark the timed-out request failed, or go on to start a generation.
AfterLoad(record, t) ==
  IF record.summary /\ record.status = "ready" /\ ~IsDetailExpired(record, t)
    THEN "ready"
  ELSE IF record.status = "pending"
    THEN IF PendingTimedOut(record, t) THEN "mark" ELSE "pending"
  ELSE "start"

\* Where _handle_detail_request goes once the timed-out record is marked
\* failed: on to the WORKER_LAMBDA_ARN test and _start_detail_generation.
AfterMark == "start"

\* time.time() advances.
Tick ==
  /\ ticks < MaxTicks
  /\ \E d \in TickSteps : now' = now + d
  /\ ticks' = ticks + 1
  /\ UNCHANGED <<rec, workerArn, reqs, workers>>
  /\ UNCHANGED notApi

\* _handle_detail_request up to the decision on the loaded record.
Load(r) ==
  /\ reqs[r].pc = "idle"
  /\ LET next == AfterLoad(rec, now)
     IN reqs' = [reqs EXCEPT ![r] =
          CASE next = "ready" -> [@ EXCEPT !.pc = "done", !.resp = "ready"]
            [] next = "pending" -> [@ EXCEPT !.pc = "done", !.resp = "pending"]
            [] next = "mark" -> [@ EXCEPT !.pc = "mark", !.timedOut = TRUE,
                                         !.had = rec.summary]
            [] OTHER ->
                 IF workerArn
                   THEN [@ EXCEPT !.pc = "start", !.had = rec.summary]
                   ELSE [@ EXCEPT !.pc = "done", !.resp = "error500"]]
  /\ UNCHANGED <<rec, now, ticks, workerArn, workers>>
  /\ UNCHANGED notApi

\* _mark_detail_failure(record, "timeout"): an unconditional update_item; a
\* failure of the update answers 500.
MarkTimeout(r) ==
  /\ reqs[r].pc = "mark"
  /\ \E upd \in {"ok", "error"} :
       IF upd = "ok"
         THEN /\ rec' = [rec EXCEPT !.status = "failed",
                                    !.failureReason = "timeout",
                                    !.failedAt = now]
              /\ reqs' = [reqs EXCEPT ![r] =
                   IF AfterMark = "start" /\ workerArn
                     THEN [@ EXCEPT !.pc = "start"]
                   ELSE IF AfterMark = "start"
                     THEN [@ EXCEPT !.pc = "done", !.resp = "error500"]
                     ELSE [@ EXCEPT !.pc = "done", !.resp = "failed"]]
         ELSE /\ rec' = rec
              /\ reqs' = [reqs EXCEPT ![r] = [@ EXCEPT !.pc = "done", !.resp = "error500"]]
  /\ UNCHANGED <<now, ticks, workerArn, workers>>
  /\ UNCHANGED notApi

\* _start_detail_generation, the conditional update_item: it sets
\* detail_status = pending and removes the failure attributes when the status
\* is not already pending; ConditionalCheckFailedException answers "pending".
StartCondWrite(r) ==
  /\ reqs[r].pc = "start"
  /\ IF PendingCondition(rec)
       THEN /\ rec' = [rec EXCEPT !.status = "pending", !.failureReason = "",
                                  !.failedAt = None]
            /\ reqs' = [reqs EXCEPT ![r] = [@ EXCEPT !.pc = "invoke", !.started = TRUE]]
            /\ workers' = [workers EXCEPT ![r] = [@ EXCEPT !.requestedAt = now]]
       ELSE /\ rec' = rec
            /\ reqs' = [reqs EXCEPT ![r] = [@ EXCEPT !.pc = "done", !.resp = "pending"]]
            /\ workers' = workers
  /\ UNCHANGED <<now, ticks, workerArn>>
  /\ UNCHANGED notApi

\* _start_detail_generation, LAMBDA_CLIENT.invoke(InvocationType="Event") with
\* requested_at in the payload; a failed invoke answers 500.
InvokeWorker(r) ==
  /\ reqs[r].pc = "invoke"
  /\ \E inv \in {"ok", "error"} :
       IF inv = "ok"
         THEN /\ workers' = [workers EXCEPT ![r] = [@ EXCEPT !.st = "running"]]
              /\ reqs' = [reqs EXCEPT ![r] =
                   [@ EXCEPT !.pc = "done",
                             !.resp = IF reqs[r].had THEN "refreshing" ELSE "started"]]
         ELSE /\ workers' = workers
              /\ reqs' = [reqs EXCEPT ![r] = [@ EXCEPT !.pc = "done", !.resp = "error500"]]
  /\ UNCHANGED <<rec, now, ticks, workerArn>>
  /\ UNCHANGED notApi

\* The record put_summary writes for a detail run: put_item replaces the item.
DetailStore(record, requestedAt, t, nonEmpty) ==
  [status |-> IF nonEmpty THEN "ready"
              ELSE IF record.status = "ready" THEN "ready" ELSE "partial",
   requestedAt |-> requestedAt,
   expiresAt |-> IF nonEmpty
                   THEN (IF DETAIL_TTL_SECONDS > 0 THEN t + DETAIL_TTL_SECONDS ELSE None)
                 ELSE IF record.status = "ready" THEN record.expiresAt ELSE None,
   summary |-> nonEmpty,
   failureReason |-> "",
   failedAt |-> None]

\* The worker run reaches the store stage: postprocess.put_summary.
WorkerStores(r) ==
  /\ workers[r].st = "running"
  /\ \E nonEmpty \in BOOLEAN :
       rec' = DetailStore(rec, workers[r].requestedAt, now, nonEmpty)
  /\ workers' = [workers EXCEPT ![r] = [@ EXCEPT !.st = "finished"]]
  /\ UNCHANGED <<now, ticks, workerArn, reqs>>
  /\ UNCHANGED notApi

\* The worker run fails at a stage: queue_worker._mark_detail_failure, whose
\* update may itself fail (and writes nothing).
WorkerFails(r) ==
  /\ workers[r].st = "running"
  /\ \E upd \in {"ok", "error"} :
       rec' = IF upd = "ok"
                THEN [rec EXCEPT !.status = "failed", !.failureReason = "stage",
                                 !.failedAt = now]
                ELSE rec
  /\ workers' = [workers EXCEPT ![r] = [@ EXCEPT !.st = "finished"]]
  /\ UNCHANGED <<now, ticks, workerArn, reqs>>
  /\ UNCHANGED notApi

ApiNext ==
  \/ Tick
  \/ \E r \in Requests :
       \/ Load(r)
       \/ MarkTimeout(r)
       \/ StartCondWrite(r)
       \/ InvokeWorker(r)
       \/ WorkerStores(r)
       \/ WorkerFails(r)

InitDetailApi == ApiInit /\ PipeIdle /\ ClassIdle /\ IngestIdle /\ IdIdle /\ FetchIdle /\ LaterIdle

SpecDetailApi == InitDetailApi /\ [][ApiNext]_vars

\* C2: of the detail triggers in flight on the item at the same time, at most
\* one has performed the transition of detail_status to pending and is about
\* to invoke the worker.
C2_AtMostOneTransition ==
  \A r1, r2 \in Requests :
    (reqs[r1].pc = "invoke" /\ reqs[r2].pc = "invoke") => r1 = r2

\* C3: a poll that found the pending request timed out and marked the item
\* failed does not itself start a new generation.
C3_TimedOutPollDoesNotRestart ==
  \A r \in Requests : reqs[r].timedOut => ~reqs[r].started

(***************************************************************************)
(* summarizer.handle and postprocess.put_summary: is the run a detail run?  *)
(***************************************************************************)
\* A requested_at that is an int.
RequestedAtValue == 17

\* Python values of request_context.requested_at: absent, an int, a str, a
\* bool.
NoValue == [type |-> "none", n |-> 0, s |-> ""]
IntValue(n) == [type |-> "int", n |-> n, s |-> ""]
StrValue(s) == [type |-> "str", n |-> 0, s |-> s]
BoolValue(b) == [type |-> "bool", n |-> IF b THEN 1 ELSE 0, s |-> ""]

DigitValue(c) ==
  CASE c = "0" -> 0 [] c = "1" -> 1 [] c = "2" -> 2 [] c = "3" -> 3
    [] c = "4" -> 4 [] c = "5" -> 5 [] c = "6" -> 6 [] c = "7" -> 7
    [] c = "8" -> 8 [] c = "9" -> 9 [] OTHER -> None

\* int(str) on unsigned decimal text: surrounding blanks are ignored; None
\* stands for ValueError.
RECURSIVE ParseDigits(_, _)
ParseDigits(s, acc) ==
  IF s = "" THEN acc
  ELSE IF DigitValue(SubSeq(s, 1, 1)) = None THEN None
  ELSE ParseDigits(SubSeq(s, 2, Len(s)), 10 * acc + DigitValue(SubSeq(s, 1, 1)))

PyInt(s) == IF Strip(s) = "" THEN None ELSE ParseDigits(Strip(s), 0)

\* postprocess._coerce_int
CoerceInt(value) ==
  CASE value.type = "none" -> None
    [] value.type = "str" -> PyInt(value.s)
    [] OTHER -> value.n

\* summarizer._coerce_requested_at
CoerceRequestedAt(value) ==
  CASE value.type = "int" -> value.n
    [] value.type = "str" /\ Strip(value.s) # "" -> PyInt(Strip(value.s))
    [] OTHER -> None

\* The reading "flag and timestamp both required".
ShouldGenerateDetailed_FlagAndTimestamp(event) ==
  event.flag = "true" /\ CoerceRequestedAt(event.requestedAt) # None

\* summarizer._should_generate_detailed
ShouldGenerateDetailed(event) ==
  IF event.flag = "true" THEN TRUE
  ELSE IF Lower(Strip(event.reason)) \notin DetailReasons THEN FALSE
  ELSE CoerceRequestedAt(event.requestedAt) # None

\* postprocess._resolve_detail_context
ResolveDetailContext(p) ==
  [isDetail |-> \/ p.flag = "true"
                \/ /\ Lower(p.reason) \in DetailReasons
                   /\ CoerceInt(p.requestedAt) # None,
   requestedAt |-> CoerceInt(p.requestedAt)]

\* payload.get("generate_detailed_summary"): missing, True, False.
Flags == {"absent", "true", "false"}
ClassReasons == {"", "ingest", "detail", "DETAIL", " detail ", "on_demand_summary"}
RequestedAts ==
  {NoValue, IntValue(RequestedAtValue), StrValue("17"), StrValue(" 17 "),
   StrValue("abc"), StrValue(""), BoolValue(TRUE)}
\* The item's record before the run: none, partial, or ready with a summary.
ExistingRecords == {"none", "partial", "ready"}

ClassInit ==
  /\ cPayload \in [flag : Flags, reason : ClassReasons, requestedAt : RequestedAts]
  /\ cExisting \in ExistingRecords
  /\ cPc = "summarize"
  /\ cMode = ""
  /\ cSummary = FALSE
  /\ cStored = 0

\* summarizer.handle: the lightweight summary, or the LLM summary; either may
\* come out with an empty summary_long.
SummarizerHandle ==
  /\ cPc = "summarize"
  /\ cMode' = IF ShouldGenerateDetailed(cPayload) THEN "detail" ELSE "lightweight"
  /\ cSummary' \in BOOLEAN
  /\ cPc' = "store"
  /\ UNCHANGED <<cPayload, cExisting, cStored>>
  /\ UNCHANGED notClass

\* _prepare_summary_payload: is the summary_long that will be stored non-empty.
SummaryLongValue(isDetail, existing, produced) ==
  IF isDetail THEN produced ELSE existing = "ready"

\* _build_summary_item: detail_status of the item put.
StoredStatus(detailReady, existing) ==
  IF detailReady THEN "ready"
  ELSE IF existing = "ready" THEN "ready"
  ELSE "partial"

\* postprocess.put_summary
PutSummary ==
  /\ cPc = "store"
  /\ LET ctx == ResolveDetailContext(cPayload)
         summaryLong == SummaryLongValue(ctx.isDetail, cExisting, cSummary)
         detailReady == ctx.isDetail /\ summaryLong
     IN cStored' = [detail |-> ctx.isDetail,
                    status |-> StoredStatus(detailReady, cExisting),
                    summaryLong |-> summaryLong,
                    requestedAt |-> ctx.requestedAt]
  /\ cPc' = "done"
  /\ UNCHANGED <<cPayload, cExisting, cMode, cSummary>>
  /\ UNCHANGED notClass

ClassNext == SummarizerHandle \/ PutSummary

InitClassify == ClassInit /\ PipeIdle /\ ApiIdle /\ IngestIdle /\ IdIdle /\ FetchIdle /\ LaterIdle

SpecClassify == InitClassify /\ [][ClassNext]_vars

\* The run is over and both stages have classified it.
Classified == cPc = "done"
FlagSet == cPayload.flag = "true"
TimestampPresent == cPayload.requestedAt.type # "none"
TimestampIntegral ==
  cPayload.requestedAt \in {IntValue(RequestedAtValue), StrValue("17"), StrValue(" 17 ")}
TreatedAsDetail == cMode = "detail" \/ cStored.detail

NumItems == 1
MaxFeedLen == 2
MaxDispatch == 1
MaxRuns == 2

Items == 1..NumItems
\* The entries _fetch_feed_entries returns, as the ids _build_item gives them.
Feeds == UNION {[1..n -> Items] : n \in 1..MaxFeedLen}

IngestInit ==
  /\ dTable \in BOOLEAN
  /\ dQueueUrl \in BOOLEAN
  /\ store \in SUBSET Items
  /\ feed = <<>>
  /\ dPos = 0
  /\ dRuns = 0
  /\ entryLog = <<>>
  /\ queue = [i \in Items |-> 0]
  /\ runs = [i \in Items |-> 0]
  /\ completed = [i \in Items |-> 0]

\* _already_processed with every failure read as "processed".
AlreadyProcessed_FailClosed(item, table, lookup, st) ==
  IF ~table THEN TRUE
  ELSE IF lookup = "error" THEN TRUE
  ELSE item \in st

\* _already_processed: False without a table and when get_item raises.
AlreadyProcessed(item, table, lookup, st) ==
  IF ~table THEN FALSE
  ELSE IF lookup = "error" THEN FALSE
  ELSE item \in st

\* dispatcher.handle up to the for loop, on a feed with entries.
StartDispatch ==
  /\ dPos = 0
  /\ dRuns < MaxDispatch
  /\ feed' \in Feeds
  /\ dPos' = 1
  /\ dRuns' = dRuns + 1
  /\ UNCHANGED <<dTable, dQueueUrl, store, entryLog, queue, runs, completed>>
  /\ UNCHANGED notIngest

\* Where the loop goes after an entry: the next entry, or the return.
NextPos(pos, entries) == IF pos < Len(entries) THEN pos + 1 ELSE 0

\* One iteration of the for loop of dispatcher.handle: _build_item,
\* _already_processed, and _send_message (whose exception leaves handle).
DispatchEntry ==
  /\ dPos > 0
  /\ \E lookup \in {"ok", "error"}, send \in {"ok", "error"} :
       LET item == feed[dPos]
           found == AlreadyProcessed(item, dTable, lookup, store)
           called == ~found /\ dQueueUrl
           sent == called /\ send = "ok"
       IN /\ entryLog' = <<[item |-> item, held |-> item \in store, found |-> found,
                             sendCalls |-> IF called THEN 1 ELSE 0,
                             sent |-> IF sent THEN 1 ELSE 0]>>
          /\ queue' = IF sent THEN [queue EXCEPT ![item] = @ + 1] ELSE queue
          /\ dPos' = IF found \/ sent THEN NextPos(dPos, feed) ELSE 0
  /\ UNCHANGED <<dTable, dQueueUrl, store, feed, dRuns, runs, completed>>
  /\ UNCHANGED notIngest

\* The queue delivers a message of item i and _process_records runs the
\* pipeline on it: the run stores the summary, or raises.  The message is
\* deleted after a successful batch, unless the queue delivers it again
\* (at-least-once delivery).
Deliver(i) ==
  /\ queue[i] > 0
  /\ runs[i] < MaxRuns
  /\ runs' = [runs EXCEPT ![i] = @ + 1]
  /\ \E outcome \in {"stored", "stored, delivered again", "raised"} :
       /\ store' = IF outcome = "raised" THEN store ELSE store \cup {i}
       /\ completed' = IF outcome = "raised" THEN completed
                       ELSE [completed EXCEPT ![i] = @ + 1]
       /\ queue' = IF outcome = "stored" THEN [queue EXCEPT ![i] = @ - 1] ELSE queue
  /\ UNCHANGED <<dTable, dQueueUrl, feed, dPos, dRuns, entryLog>>
  /\ UNCHANGED notIngest

IngestNext ==
  \/ StartDispatch
  \/ DispatchEntry
  \/ \E i \in Items : Deliver(i)

InitIngest == IngestInit /\ PipeIdle /\ ApiIdle /\ ClassIdle /\ IdIdle /\ FetchIdle /\ LaterIdle

SpecIngest == InitIngest /\ [][IngestNext]_vars

C8_AtMostOneRunPerItem ==
  \A i \in Items : completed[i] <= 1

(***************************************************************************)
(* shared/url.py and dispatcher._build_item.  A URL is what urlparse makes  *)
(* of it: scheme, netloc, path, the query's (key, value) pairs, fragment.   *)
(***************************************************************************)
EndsWith(s, suffix) ==
  /\ Len(s) >= Len(suffix)
  /\ SubSeq(s, Len(s) - Len(suffix) + 1, Len(s)) = suffix

\* s.split(":")[0]
RECURSIVE BeforeColon(_)
BeforeColon(s) ==
  IF s = "" THEN ""
  ELSE IF SubSeq(s, 1, 1) = ":" THEN ""
  ELSE SubSeq(s, 1, 1) \o BeforeColon(SubSeq(s, 2, Len(s)))

TRACKING_PARAMS ==
  {"utm_source", "utm_medium", "utm_campaign", "utm_term", "utm_content",
   "utm_id", "gclid", "fbclid", "mc_cid", "mc_eid"}

\* strip_tracking_params
StripTrackingParams(pairs) == {kv \in pairs : kv[1] \notin TRACKING_PARAMS}

\* normalize_url, first component of the result: the normalized URL.  The
\* sorted pair list is the set of pairs.
NormalizeUrl(url) ==
  LET scheme == Lower(IF url.scheme = "" THEN "https" ELSE url.scheme)
      lowered == Lower(url.netloc)
      netloc ==
        IF scheme = "http" /\ EndsWith(lowered, ":80")
          THEN SubSeq(lowered, 1, Len(lowered) - 3)
        ELSE IF scheme = "https" /\ EndsWith(lowered, ":443")
          THEN SubSeq(lowered, 1, Len(lowered) - 4)
        ELSE lowered
      hostname == BeforeColon(netloc)
      pairs == IF EndsWith(hostname, "straitstimes.com")
                 THEN url.query
                 ELSE StripTrackingParams(url.query)
  IN [scheme |-> scheme, netloc |-> netloc,
      path |-> IF url.path = "" THEN "/" ELSE url.path,
      query |-> pairs, fragment |-> ""]

\* ensure_source_link
EnsureSourceLink(sourceId, url) ==
  IF sourceId # "straits-times" THEN url
  ELSE IF ~EndsWith(Lower(url.netloc), "straitstimes.com") THEN url
  ELSE LET keys == {kv[1] : kv \in url.query}
           withSource == IF "utm_source" \in keys THEN url.query
                         ELSE url.query \cup {<<"utm_source", "rss">>}
           withMedium == IF "utm_medium" \in keys THEN withSource
                         ELSE withSource \cup {<<"utm_medium", "referral">>}
       IN [url EXCEPT !.query = withMedium]

\* md5(...).hexdigest(), taken as collision-free: the digest names its input.
Md5(text) == [md5 |-> text]

\* dispatcher._build_item
BuildItem(sourceId, rawLink) ==
  LET link == EnsureSourceLink(sourceId, rawLink)
      normalized == NormalizeUrl(link)
  IN [link |-> link, id |-> <<sourceId, Md5(normalized)>>,
      normalized_link |-> normalized]

Sources == {"straits-times", "bbc"}
Netlocs == {"www.straitstimes.com", "WWW.straitstimes.com",
            "www.straitstimes.com:443", "www.bbc.com", "www.bbc.com:443",
            "www.bbc.com:80"}
Queries == {{}, {<<"id", "1">>}, {<<"utm_source", "rss">>, <<"id", "1">>}}
RawLinks ==
  [scheme : {"https", "http"}, netloc : Netlocs, path : {"", "/a"},
   query : Queries, fragment : {"", "top"}]

IdInit ==
  /\ iSource \in Sources
  /\ iLinks \in [1..2 -> RawLinks]
  /\ iItems = <<>>

\* The loop body of dispatcher.handle builds the item of entry k.
BuildEntry(k) ==
  /\ k \notin DOMAIN iItems
  /\ iItems' = [j \in DOMAIN iItems \cup {k} |->
                 IF j = k THEN BuildItem(iSource, iLinks[k]) ELSE iItems[j]]
  /\ UNCHANGED <<iSource, iLinks>>
  /\ UNCHANGED notId

IdNext == \E k \in 1..2 : BuildEntry(k)

InitItemId == IdInit /\ PipeIdle /\ ApiIdle /\ ClassIdle /\ IngestIdle /\ FetchIdle /\ LaterIdle

SpecItemId == InitItemId /\ [][IdNext]_vars

\* C9: two links of one source that normalize to the same URL are given the
\* same item id.
C9_SameNormalizedLinkSameId ==
  (DOMAIN iItems = {1, 2} /\ NormalizeUrl(iLinks[1]) = NormalizeUrl(iLinks[2]))
    => iItems[1].id = iItems[2].id

(***************************************************************************)
(* collector._request_with_retry.  Times are in tenths of a second.         *)
(***************************************************************************)
RETRYABLE_STATUS_CODES == {408, 429, 500, 502, 503, 504}

\* Defaults of _request_with_retry, which its callers do not override, and
\* the cap on the doubled sleep.
DefaultMaxAttempts == 4
BaseSleep == 5
SleepCap == 80

\* A longer base_sleep, with which the doubled sleep reaches the cap within
\* the default number of attempts.
LongBaseSleep == 30
\* A base_sleep above the cap.
OverCapBaseSleep == 100

\* HTTP statuses the server may answer with an error.
ErrorStatuses == RETRYABLE_STATUS_CODES \cup {403, 404}

\* What one attempt (urlopen, then response.read) can do:
\*   ok           the body is read;
\*   HTTPError    urlopen raises urllib.error.HTTPError(code);
\*   URLError     urlopen raises urllib.error.URLError: name resolution,
\*                connection refused, timeout while connecting or sending;
\*   TimeoutError the socket times out while the response is awaited or read:
\*                raised as TimeoutError (an OSError, not a URLError).
AttemptOutcomes ==
  {[kind |-> "ok", status |-> 200], [kind |-> "URLError", status |-> 0],
   [kind |-> "TimeoutError", status |-> 0]}
  \cup {[kind |-> "HTTPError", status |-> c] : c \in ErrorStatuses}

FetchInit ==
  /\ fMax \in 1..DefaultMaxAttempts
  /\ fBase \in {BaseSleep, LongBaseSleep, OverCapBaseSleep}
  /\ fAttempt = 0
  /\ fSleep = fBase
  /\ fSlept = <<>>
  /\ fOutcomes = <<>>
  /\ fPc = "run"
  /\ fResult = 0

\* The except clauses with every HTTP error retried while attempts remain.
Retries_AnyHttpError(outcome, attempt, maxAttempts) ==
  outcome.kind \in {"HTTPError", "URLError"} /\ attempt < maxAttempts

\* The except clauses with the attempt test off by one.
Retries_OffByOne(outcome, attempt, maxAttempts) ==
  CASE outcome.kind = "HTTPError" ->
         outcome.status \in RETRYABLE_STATUS_CODES /\ attempt <= maxAttempts
    [] outcome.kind = "URLError" -> attempt <= maxAttempts
    [] OTHER -> FALSE

\* The doubling without the cap.
NextSleep_Uncapped(sleep) == sleep * 2

\* sleep = min(sleep * 2, 8.0)
NextSleep(sleep) == Min(sleep * 2, SleepCap)

\* Does the except clause that catches the outcome sleep and continue.
Retries(outcome, attempt, maxAttempts) ==
  CASE outcome.kind = "HTTPError" ->
         outcome.status \in RETRYABLE_STATUS_CODES /\ attempt < maxAttempts
    [] outcome.kind = "URLError" -> attempt < maxAttempts
    [] OTHER -> FALSE

\* One iteration of the while loop.
Attempt(outcome) ==
  /\ fPc = "run"
  /\ fAttempt < fMax
  /\ fAttempt' = fAttempt + 1
  /\ fOutcomes' = Append(fOutcomes, outcome)
  /\ IF outcome.kind = "ok"
       THEN /\ fPc' = "returned"
            /\ fResult' = fAttempt + 1
            /\ UNCHANGED <<fSleep, fSlept>>
     ELSE IF Retries(outcome, fAttempt + 1, fMax)
       THEN /\ fPc' = "run"
            /\ fSlept' = Append(fSlept, fSleep)
            /\ fSleep' = NextSleep(fSleep)
            /\ fResult' = fResult
       ELSE /\ fPc' = "raised"
            /\ fResult' = fAttempt + 1
            /\ UNCHANGED <<fSleep, fSlept>>
  /\ UNCHANGED <<fMax, fBase>>
  /\ UNCHANGED notFetch

FetchNext == \E outcome \in AttemptOutcomes : Attempt(outcome)

InitFetch == FetchInit /\ PipeIdle /\ ApiIdle /\ ClassIdle /\ IngestIdle /\ IdIdle /\ LaterIdle

SpecFetch == InitFetch /\ [][FetchNext]_vars

\* The failures the fetcher is to retry: a timeout, a connection error, or an
\* HTTP status of the retryable set.
RetryableFailure(outcome) ==
  \/ outcome.kind \in {"TimeoutError", "URLError"}
  \/ outcome.kind = "HTTPError" /\ outcome.status \in RETRYABLE_STATUS_CODES

\* C10: after an attempt that failed with a retryable failure while fewer than
\* max_attempts attempts have been made, the fetcher goes on to another
\* attempt: it has not raised.
C10_RetriesWhileAttemptsRemain ==
  (fAttempt > 0 /\ fAttempt < fMax /\ RetryableFailure(fOutcomes[fAttempt]))
    => fPc = "run"

\* The while loop with each iteration eventually taken: urlopen and read are
\* bounded by the timeout, time.sleep by the sleep.
SpecFetchLive == InitFetch /\ [][FetchNext]_vars /\ WF_vars(FetchNext)

NonRetryableHttpError(outcome) ==
  outcome.kind = "HTTPError" /\ outcome.status \notin RETRYABLE_STATUS_CODES

\* C11: an HTTP error whose status is not retryable propagates from the attempt
\* it occurs on: no sleep follows it and no further attempt is made; when it
\* is the answer to the first attempt, exactly one attempt is made.
C11_NonRetryableStatusPropagates ==
  \A k \in 1..Len(fOutcomes) :
    NonRetryableHttpError(fOutcomes[k]) =>
      /\ k = Len(fOutcomes)
      /\ fAttempt = k
      /\ fPc = "raised"
      /\ fResult = k
      /\ Len(fSlept) = k - 1

\* A 404 on the first of several allowed attempts has been raised.
C11_Witness ==
  /\ fMax > 1
  /\ fOutcomes = <<[kind |-> "HTTPError", status |-> 404]>>
  /\ fPc = "raised" /\ fSlept = <<>>

Http503 == [kind |-> "HTTPError", status |-> 503]
Ok200 == [kind |-> "ok", status |-> 200]

\* What holds of a fetch at every moment: at most max_attempts attempts, none
\* left to make once they are used up, the body returned is that of the first
\* successful attempt, the error raised is that of the last attempt.
FetchBounded ==
  /\ fAttempt <= fMax
  /\ Len(fOutcomes) = fAttempt
  /\ fAttempt = fMax => fPc # "run"
  /\ fPc = "returned" =>
       /\ fResult = fAttempt
       /\ fOutcomes[fAttempt].kind = "ok"
       /\ \A k \in 1..(fAttempt - 1) : fOutcomes[k].kind # "ok"
  /\ fPc = "raised" =>
       /\ fResult = fAttempt
       /\ fOutcomes[fAttempt].kind # "ok"
  /\ (fMax = 4 /\ fOutcomes = <<Http503, Http503, Http503, Ok200>>) =>
       (fPc = "returned" /\ fResult = 4)

\* C12: a fetch makes at most max_attempts attempts and terminates, returning
\* the body of the first successful attempt or raising the error of the last
\* attempt; 503, 503, 503, 200 with four attempts returns the final body.
C12_BoundedAndTerminates == [] FetchBounded /\ <>(fPc # "run")

\* 503 three times then 200, four attempts allowed: the fourth body is returned.
C12_Witness ==
  /\ fMax = 4
  /\ fOutcomes = <<Http503, Http503, Http503, Ok200>>
  /\ fPc = "returned" /\ fResult = 4

QuoteChar(c) ==
  CASE c = " " -> "+" [] c = "+" -> "%2B" [] c = "%" -> "%25"
    [] c = "&" -> "%26" [] c = "=" -> "%3D" [] OTHER -> c

\* quote_plus that escapes nothing.
QuotePlus_NoEscape(text) == text

RECURSIVE QuoteAll(_)
QuoteAll(text) ==
  IF text = "" THEN ""
  ELSE QuoteChar(SubSeq(text, 1, 1)) \o QuoteAll(SubSeq(text, 2, Len(text)))

\* urllib.parse.quote_plus, as urlencode applies it to keys and values.
QuotePlus(text) == QuoteAll(text)

\* The character a %XX escape stands for ("" when it is not an escape).
Unescape(hex) ==
  CASE hex = "2B" -> "+" [] hex = "25" -> "%" [] hex = "26" -> "&"
    [] hex = "3D" -> "=" [] OTHER -> ""

\* urllib.parse.unquote_plus, as parse_qsl applies it.
RECURSIVE UnquotePlus(_)
UnquotePlus(text) ==
  IF text = "" THEN ""
  ELSE IF SubSeq(text, 1, 1) = "+"
    THEN " " \o UnquotePlus(SubSeq(text, 2, Len(text)))
  ELSE IF SubSeq(text, 1, 1) = "%" /\ Len(text) >= 3
          /\ Unescape(SubSeq(text, 2, 3)) # ""
    THEN Unescape(SubSeq(text, 2, 3)) \o UnquotePlus(SubSeq(text, 4, Len(text)))
  ELSE SubSeq(text, 1, 1) \o UnquotePlus(SubSeq(text, 2, Len(text)))

\* urlencode(pairs): the key=value items of the query string.
UrlEncode(pairs) == {<<QuotePlus(kv[1]), QuotePlus(kv[2])>> : kv \in pairs}

\* parse_qsl(query, keep_blank_values=True) on those items.
ParseQsl(items) == {<<UnquotePlus(kv[1]), UnquotePlus(kv[2])>> : kv \in items}

\* urlunparse((scheme, netloc, path, "", normalized_query, "")): the
\* normalized string, by its parts.
NormalizedString(n) == [n EXCEPT !.query = UrlEncode(n.query)]

\* urlparse and parse_qsl on a normalized string.
ParseNormalized(text) == [text EXCEPT !.query = ParseQsl(text.query)]

\* hashlib.sha256(...).hexdigest(), taken as collision-free.
Sha256(text) == [sha256 |-> text]

\* normalize_url: the normalized string and its fingerprint.
NormalizeUrlResult(url) ==
  [normalized |-> NormalizedString(NormalizeUrl(url)),
   fingerprint |-> Sha256(NormalizedString(NormalizeUrl(url)))]

\* Query pairs with a value the query string escapes, and a tracking
\* parameter.
EscapedQueries == {{<<"q", "a b+c">>, <<"fbclid", "x">>},
                   {<<"q", "a b+c">>, <<"utm_source", "rss">>, <<"utm_medium", "referral">>}}

\* The URLs normalize_url is given: links as the feed has them and as
\* ensure_source_link rewrote them.
NormInputs ==
  RawLinks
  \cup {EnsureSourceLink("straits-times", u) : u \in RawLinks}
  \cup [scheme : {"https", "http"}, netloc : Netlocs, path : {"", "/a"},
        query : EscapedQueries, fragment : {"", "top"}]

NormInit ==
  /\ nUrl \in NormInputs
  /\ nResults = <<>>

\* normalize_url(url)
NormalizeOnce ==
  /\ nResults = <<>>
  /\ nResults' = <<NormalizeUrlResult(nUrl)>>
  /\ UNCHANGED nUrl
  /\ UNCHANGED notNorm

\* normalize_url(normalized), on the string the first call returned.
NormalizeAgain ==
  /\ Len(nResults) = 1
  /\ nResults' = Append(nResults,
                        NormalizeUrlResult(ParseNormalized(nResults[1].normalized)))
  /\ UNCHANGED nUrl
  /\ UNCHANGED notNorm

NormNext == NormalizeOnce \/ NormalizeAgain

InitNormalize == NormInit /\ NormAlone

SpecNormalize == InitNormalize /\ [][NormNext]_vars

JAbsent == [type |-> "absent", s |-> "", n |-> 0, items |-> <<>>]
JNull == [type |-> "null", s |-> "", n |-> 0, items |-> <<>>]
JDict == [type |-> "dict", s |-> "", n |-> 0, items |-> <<>>]
JStr(s) == [type |-> "str", s |-> s, n |-> 0, items |-> <<>>]
JInt(n) == [type |-> "int", s |-> "", n |-> n, items |-> <<>>]
JList(items) == [type |-> "list", s |-> "", n |-> 0, items |-> items]

\* str(item) for the items of a JSON list.
PyStr(value) == IF value.type = "str" THEN value.s ELSE ToString(value.n)

\* _clean_summary_text and _extract_japanese_lines on a one-line text that has
\* no section header: the text, stripped.
CleanSummaryText(text) == Strip(text)
ExtractJapaneseLines(text) == Strip(text)

\* BULLET_PREFIX_RE on a stripped line: a "- " prefix.
HasBullet(line) == Len(line) >= 2 /\ SubSeq(line, 1, 2) = "- "

\* _parse_diff_points
ParseDiffPoints(value) ==
  IF value.type = "list"
    THEN LET kept == SelectSeq(value.items, LAMBDA item : Strip(PyStr(item)) # "")
         IN [k \in 1..Len(kept) |-> Strip(PyStr(kept[k]))]
  ELSE LET line == Strip(value.s)
       IN IF HasBullet(line) /\ Strip(SubSeq(line, 3, Len(line))) # ""
            THEN <<Strip(SubSeq(line, 3, Len(line)))>>
            ELSE <<>>

\* _pick of _normalise_schema: the first candidate that is a non-blank str.
Pick(first, second) ==
  IF first.type = "str" /\ Strip(first.s) # "" THEN Strip(first.s)
  ELSE IF second.type = "str" /\ Strip(second.s) # "" THEN Strip(second.s)
  ELSE ""

\* _normalise_schema: the dict it returns, or the RuntimeError it raises when
\* diff_points is neither a str nor a list (a missing key defaults to []).
NormaliseSchema(data) ==
  LET diffPoints == IF data.diff_points.type = "absent" THEN JList(<<>>)
                    ELSE data.diff_points
  IN IF diffPoints.type \in {"str", "list"}
       THEN [raises |-> "",
             summary_long |-> JStr(ExtractJapaneseLines(CleanSummaryText(
                                     Pick(data.summary_long, data.summary)))),
             diff_points |-> JList(ParseDiffPoints(diffPoints))]
       ELSE [raises |-> "RuntimeError", summary_long |-> JAbsent,
             diff_points |-> JAbsent]

\* The fallback of _parse_summary_text on the text (one line).
FallbackResult(text) ==
  LET cleaned == CleanSummaryText(text)
      section == IF cleaned # "" THEN cleaned ELSE text
  IN [raises |-> "",
      summary_long |-> JStr(ExtractJapaneseLines(section)),
      diff_points |-> JList(ParseDiffPoints(JStr(text)))]

\* The except clauses of the for loop that catch nothing but JSONDecodeError.
Caught_DecodeErrorOnly(exception) == exception = "JSONDecodeError"

\* The except clauses of the for loop: json.JSONDecodeError, RuntimeError.
Caught(exception) == exception \in {"JSONDecodeError", "RuntimeError"}

\* What json.loads does on a candidate, which is text from "{" to a "}":
\* it makes a dict, or raises JSONDecodeError on malformed JSON, ValueError
\* on an integer literal of more digits than int() converts, RecursionError
\* on nesting deeper than the interpreter's stack.
LoadsErrors == {"JSONDecodeError", "ValueError", "RecursionError"}
FailedCandidate(error) ==
  [loads |-> error, summary_long |-> JAbsent, summary |-> JAbsent,
   diff_points |-> JAbsent]
SummaryValues == {JAbsent, JStr(" youyaku "), JInt(7)}
DiffPointValues ==
  {JAbsent, JNull, JDict, JInt(3), JStr("- point"), JStr("prose"),
   JList(<<JStr(" a "), JInt(5), JStr(" ")>>)}
JsonCandidates ==
  {FailedCandidate(error) : error \in LoadsErrors}
  \cup [loads : {"dict"}, summary_long : SummaryValues,
        summary : {JAbsent, JStr("alt")}, diff_points : DiffPointValues]

\* Most JSON candidates in one text.
MaxCandidates == 2

\* The rest of the text, as the fallback reads it.
Proses == {"", "plain prose", " - point one"}

ParseInit ==
  /\ pText \in [candidates : UNION {[1..n -> JsonCandidates] : n \in 0..MaxCandidates},
                prose : Proses]
  /\ pPos = 1
  /\ pPc = "loop"
  /\ pResult = 0

\* What the body of the for loop does on a candidate: the exception raised
\* in it ("" if none) and the value _normalise_schema returned.
OnCandidate(candidate) ==
  IF candidate.loads # "dict"
    THEN [raises |-> candidate.loads, summary_long |-> JAbsent,
          diff_points |-> JAbsent]
    ELSE NormaliseSchema(candidate)

\* One iteration of the for loop of _parse_summary_text.
TryCandidate ==
  /\ pPc = "loop"
  /\ pPos <= Len(pText.candidates)
  /\ LET outcome == OnCandidate(pText.candidates[pPos])
     IN IF outcome.raises = ""
          THEN pPc' = "returned" /\ pResult' = outcome /\ pPos' = pPos
        ELSE IF Caught(outcome.raises)
          THEN pPc' = "loop" /\ pResult' = pResult /\ pPos' = pPos + 1
          ELSE pPc' = "raised" /\ pResult' = outcome /\ pPos' = pPos
  /\ UNCHANGED pText
  /\ UNCHANGED notParse

\* After the loop: the fallback summaries from the text itself.
Fallback ==
  /\ pPc = "loop"
  /\ pPos > Len(pText.candidates)
  /\ pPc' = "returned"
  /\ pResult' = FallbackResult(pText.prose)
  /\ UNCHANGED <<pText, pPos>>
  /\ UNCHANGED notParse

ParseNext == TryCandidate \/ Fallback

InitParse == ParseInit /\ ParseAlone

SpecParse == InitParse /\ [][ParseNext]_vars

\* C15: parsing model output never raises; what it returns has a summary_long
\* string and a diff_points list (of strings).
C15_ParseNeverRaises ==
  /\ pPc # "raised"
  /\ pPc = "returned" =>
       /\ pResult.raises = ""
       /\ pResult.summary_long.type = "str"
       /\ pResult.diff_points.type = "list"
       /\ \A k \in 1..Len(pResult.diff_points.items) :
            pResult.diff_points.items[k] # ""

\* What does hold: the only exceptions that leave the parser are those of
\* json.loads other than JSONDecodeError, and every result returned has a
\* string and a list.
C15_RaisesOnlyLoadsErrors ==
  /\ pPc = "raised" =>
       /\ pResult.raises \in LoadsErrors \ {"JSONDecodeError"}
       /\ pText.candidates[pPos].loads = pResult.raises
  /\ pPc = "returned" =>
       /\ pResult.summary_long.type = "str"
       /\ pResult.diff_points.type = "list"

\* A text whose first JSON object has a diff_points of the wrong type and
\* whose second is malformed has been parsed by the fallback.
C15_Witness ==
  /\ pPc = "returned"
  /\ Len(pText.candidates) = 2
  /\ pText.candidates[1].loads = "dict"
  /\ pText.candidates[1].diff_points = JNull
  /\ pText.candidates[2].loads = "JSONDecodeError"
  /\ pPos = 3
  /\ pResult.diff_points = JList(<<"point one">>)

(***************************************************************************)
(* summarizer: _tokenize, _has_article_overlap, _enforce_summary_quality.   *)
(* Texts are ASCII; "$" and "%" stand for two characters of                 *)
(* JAPANESE_CHAR_RE (kana, kanji).                                          *)
(***************************************************************************)
JapaneseChars == {"$", "%"}

\* The characters of TOKEN_SPLIT_RE that occur in the texts.
TokenSplitChars == {" ", ",", ";", ":", "!", "?", "(", ")", "[", "]"}

\* needle in hay
Contains(hay, needle) ==
  \E k \in 1..(Len(hay) - Len(needle) + 1) :
    SubSeq(hay, k, k + Len(needle) - 1) = needle

\* _contains_japanese
ContainsJapanese(text) ==
  \E k \in 1..Len(text) : SubSeq(text, k, k) \in JapaneseChars

\* Where the pieces between split characters begin in the text, and where
\* the piece that begins at k ends.
PieceStarts(text) ==
  {k \in 1..Len(text) :
     /\ SubSeq(text, k, k) \notin TokenSplitChars
     /\ k = 1 \/ SubSeq(text, k - 1, k - 1) \in TokenSplitChars}
PieceEnd(text, k) ==
  CHOOSE j \in k..Len(text) :
    /\ j = Len(text) \/ SubSeq(text, j + 1, j + 1) \in TokenSplitChars
    /\ \A i \in k..j : SubSeq(text, i, i) \notin TokenSplitChars

\* TOKEN_SPLIT_RE.split(text): the pieces in order, with an empty piece
\* before a leading and after a trailing run of split characters.
Split(text) ==
  LET starts == PieceStarts(text)
      nth(n) == CHOOSE k \in starts : Cardinality({j \in starts : j < k}) = n - 1
      pieces == [n \in 1..Cardinality(starts) |->
                   SubSeq(text, nth(n), PieceEnd(text, nth(n)))]
      leading == IF text = "" \/ SubSeq(text, 1, 1) \in TokenSplitChars
                   THEN <<"">> ELSE <<>>
      trailing == IF text # "" /\ SubSeq(text, Len(text), Len(text)) \in TokenSplitChars
                    THEN <<"">> ELSE <<>>
  IN leading \o pieces \o trailing

\* Shortest token without a Japanese character that _tokenize keeps.
MinTokenLen == 3

\* The loop of _tokenize over the pieces: blank pieces and short pieces
\* without a Japanese character are dropped, the others kept, lowercased
\* unless they have a Japanese character.
KeptPiece(piece) ==
  /\ Strip(piece) # ""
  /\ ContainsJapanese(Strip(piece)) \/ Len(Lower(Strip(piece))) >= MinTokenLen
TokensOf(pieces) ==
  LET kept == SelectSeq(pieces, KeptPiece)
  IN [k \in 1..Len(kept) |->
        IF ContainsJapanese(Strip(kept[k])) THEN Strip(kept[k])
        ELSE Lower(Strip(kept[k]))]

\* _tokenize
Tokenize(text) == TokensOf(Split(text))

\* The tokens _has_article_overlap reads.
MaxOverlapTokens == 40

\* Divisor of the token count in the threshold.
ThresholdDivisor == 6

\* `_tokenize(summary)` with no slice.
OverlapTokens_NoCap(summary) == Tokenize(summary)

\* `_tokenize(summary)[:40]`
OverlapTokens(summary) ==
  LET tokens == Tokenize(summary)
  IN SubSeq(tokens, 1, Min(Len(tokens), MaxOverlapTokens))

\* The loop of _has_article_overlap: how many of the tokens are found in
\* the article.
CountMatches(tokens, articleNormalised) ==
  LET target(token) == IF ContainsJapanese(token) THEN token ELSE Lower(token)
  IN Cardinality({k \in DOMAIN tokens :
                    /\ target(tokens[k]) # ""
                    /\ Contains(articleNormalised, target(tokens[k]))})

\* _has_article_overlap
HasArticleOverlap(article, summary) ==
  IF article = "" \/ summary = "" THEN FALSE
  ELSE LET tokens == OverlapTokens(summary)
       IN IF tokens = <<>> THEN FALSE
          ELSE CountMatches(tokens, Lower(article))
                 >= Max(1, Len(tokens) \div ThresholdDivisor)

\* _fallback_summary
FallbackSummary == [summary_long |-> "", diff_points |-> <<>>]

\* _enforce_summary_quality
EnforceSummaryQuality(article, summaries) ==
  IF DOMAIN summaries = {} THEN FallbackSummary
  ELSE LET summary_detail == Strip(summaries.summary_long)
           article_has_jp == ContainsJapanese(article)
           summary_has_jp == summary_detail # "" /\ ContainsJapanese(summary_detail)
       IN IF /\ article # ""
             /\ article_has_jp = summary_has_jp
             /\ ~HasArticleOverlap(article, summary_detail)
            THEN FallbackSummary
            ELSE summaries

\* `count` times the token, each followed by a blank.
RECURSIVE Repeat(_, _)
Repeat(token, count) ==
  IF count = 0 THEN "" ELSE token \o " " \o Repeat(token, count - 1)

\* Summaries of `first` tokens that are in the articles, then `missing`
\* tokens that are not, then `last` tokens that are.
FirstCounts == {0, 1, 5, 6}
MissingCounts == {0, 5, 35, 36}
LastCounts == {0, 1}
LongSummaries ==
  {Repeat("Cat", first) \o Repeat("zzz", missing) \o Repeat("cat", last) :
     first \in FirstCounts, missing \in MissingCounts, last \in LastCounts}
ShortSummaries ==
  {"", "  ", "at at", "(zzz)", "$%", "AB$", "$% zzz, zzz; zzz zzz zzz zzz",
   " The cat!"}
Articles == {"", "The Cat sat", "$% AB$ cat"}
DiffPointLists == {<<>>, <<"fact">>}

QualityInit ==
  /\ qArticle \in Articles
  /\ qSummaries \in [summary_long : LongSummaries \cup ShortSummaries,
                     diff_points : DiffPointLists]
  /\ qPc = "start"
  /\ qOverlap = FALSE
  /\ qOut = <<>>

\* _has_article_overlap applied to the article and the summary text.
CheckOverlap ==
  /\ qPc = "start"
  /\ qOverlap' = HasArticleOverlap(qArticle, qSummaries.summary_long)
  /\ qPc' = "checked"
  /\ UNCHANGED <<qArticle, qSummaries, qOut>>
  /\ UNCHANGED notQuality

\* The detail path of summarizer.handle after parsing: the summaries it
\* returns for the next stage, postprocess, to store.
Enforce ==
  /\ qPc = "start"
  /\ qOut' = EnforceSummaryQuality(qArticle, qSummaries)
  /\ qPc' = "enforced"
  /\ UNCHANGED <<qArticle, qSummaries, qOverlap>>
  /\ UNCHANGED notQuality

QualityNext == CheckOverlap \/ Enforce

InitQuality == QualityInit /\ QualityAlone

SpecQuality == InitQuality /\ [][QualityNext]_vars

\* The summary tokens the check considers, and those of them that occur in
\* the lowercased article.
C16_Considered ==
  LET tokens == Tokenize(qSummaries.summary_long)
  IN [k \in 1..Min(Len(tokens), 40) |-> tokens[k]]
C16_Occurring ==
  {k \in DOMAIN C16_Considered : Contains(Lower(qArticle), C16_Considered[k])}

\* C16: the overlap check reads at most the first 40 summary tokens and
\* accepts exactly when the number of them occurring in the lowercased
\* article is at least max(1, floor(tokenCount / 6)).
C16_AcceptsIffThresholdMet ==
  qPc = "checked" =>
    /\ Len(C16_Considered) <= 40
    /\ qOverlap <=>
         Cardinality(C16_Occurring) >= Max(1, Len(C16_Considered) \div 6)

\* A summary of 41 tokens has been rejected: 5 of the first 40 occur in the
\* article, under the threshold 6, and the 41st, which occurs too, is not
\* read.
C16_Witness ==
  /\ qPc = "checked"
  /\ Len(Tokenize(qSummaries.summary_long)) = 41
  /\ Cardinality(C16_Occurring) = 5
  /\ Contains(Lower(qArticle), Tokenize(qSummaries.summary_long)[41])
  /\ ~qOverlap

\* The candidate summary is empty, or none of its tokens occurs in the
\* article.
C17_EmptyOrNoOverlap ==
  \/ Strip(qSummaries.summary_long) = ""
  \/ \A k \in DOMAIN C16_Considered :
       ~Contains(Lower(qArticle), C16_Considered[k])

\* C17: quality enforcement returns the fixed fallback (empty summary, no
\* facts) whenever the candidate summary is empty or has no lexical overlap
\* with the article, so that no such summary goes on to the store.
C17_FallbackWhenEmptyOrNoOverlap ==
  (qPc = "enforced" /\ C17_EmptyOrNoOverlap) => qOut = FallbackSummary

(***************************************************************************)
(* One run of queue_worker._run_pipeline with the data of its stages:       *)
(* collector.handle, preprocessor.enrich_event, summarizer.handle,          *)
(* postprocess.handle.  An event is a function from its keys; None and {}   *)
(* are both written <<>>, the handlers reading them through `or {}`.        *)
(***************************************************************************)
PyNone == <<>>

\* d.get(key)
Get(d, key) == IF key \in DOMAIN d THEN d[key] ELSE PyNone

\* {**d, key: value}
With(d, key, value) == (key :> value) @@ d

\* {k: v for k, v in d.items() if k != key}
Without(d, key) == [k \in DOMAIN d \ {key} |-> d[k]]

\* The keys of request_context the stages read, as the classification of a
\* run reads them: the flag, the reason, requested_at.
DetailView(event) ==
  LET context == Get(event, "request_context")
  IN [flag |-> IF "generate_detailed_summary" \notin DOMAIN event THEN "absent"
               ELSE IF event["generate_detailed_summary"] THEN "true"
               ELSE "false",
      reason |-> IF "reason" \in DOMAIN context THEN context["reason"] ELSE "",
      requestedAt |-> IF "requested_at" \in DOMAIN context
                        THEN IntValue(context["requested_at"])
                        ELSE NoValue]

\* collector.handle, given the article text it obtained: the dict it returns.
CollectorHandle(event, body) ==
  [source |-> Get(event, "source"),
   item |-> Get(event, "item"),
   article_body |-> body,
   metrics |-> [fetch_seconds |-> 0],
   request_context |-> Get(event, "request_context")]

\* compute_simhash, uninterpreted.
Simhash(text) == [simhash |-> text]

\* preprocessor.enrich_event (the language service not answering).
EnrichEvent(event) ==
  LET url == NormalizeUrlResult(event["item"]["link"])
      item == With(With(event["item"], "normalized_link", url.normalized),
                   "link_fingerprint", url.fingerprint)
  IN With(With(event, "item", item), "preprocess",
          [url |-> url,
           hashes |-> [simhash |-> Simhash(event["article_body"]),
                       sha256 |-> Sha256(event["article_body"])],
           language |-> [code |-> "und", score |-> 0, is_reliable |-> FALSE]])

\* The sentence _generate_lightweight_summary puts for a missing body, in
\* Japanese.
BodyMissingMessage == "%$%"

\* summary_long[:600]
LightweightLimit == 600

\* _generate_lightweight_summary on a one-line article.
GenerateLightweightSummary(event) ==
  LET stripped == Strip(event["article_body"])
      body == IF stripped = "" THEN BodyMissingMessage ELSE stripped
      summary_long == SubSeq(body, 1, Min(Len(body), LightweightLimit))
  IN [summary_long |-> ExtractJapaneseLines(Strip(summary_long)),
      diff_points |-> <<>>]

\* summarizer.handle, given what the model's answer parsed to.
SummarizerResult(event, model) ==
  IF ~ShouldGenerateDetailed(DetailView(event))
    THEN With(event, "summaries", GenerateLightweightSummary(event))
    ELSE With(With(event, "summaries",
                   EnforceSummaryQuality(event["article_body"], model)),
              "llm", [provider |-> "bedrock"])

\* SUMMARY_FALLBACK_MESSAGE, a sentence in Japanese.
SUMMARY_FALLBACK_MESSAGE == "$%$%"

\* postprocess._extract_japanese_text on one line: the line from its first
\* Japanese character on.
ExtractJapaneseText(value) ==
  IF ~ContainsJapanese(Strip(value)) THEN ""
  ELSE LET line == Strip(value)
           first == CHOOSE k \in 1..Len(line) :
                      /\ SubSeq(line, k, k) \in JapaneseChars
                      /\ \A j \in 1..(k - 1) : SubSeq(line, j, j) \notin JapaneseChars
       IN Strip(SubSeq(line, first, Len(line)))

\* _translate_text_to_japanese, given the service's answer ("" for none).
TranslateTextToJapanese(text, answer) ==
  IF Strip(text) = "" \/ ContainsJapanese(Strip(text)) THEN ""
  ELSE ExtractJapaneseText(Strip(answer))

\* The summary_long filter applied twice in _prepare_summary_payload.
FilterSummaryLong(summaries) ==
  LET value == Strip(summaries["summary_long"])
  IN IF value = "" THEN summaries
     ELSE IF ExtractJapaneseText(value) # ""
       THEN With(summaries, "summary_long", ExtractJapaneseText(value))
     ELSE IF ~ContainsJapanese(value)
       THEN With(summaries, "summary_long", SUMMARY_FALLBACK_MESSAGE)
     ELSE summaries

\* _prepare_summary_payload for an item that has no record yet: the
\* summaries to store.
PrepareSummaryPayload(summaries, isDetail, answer) ==
  LET translated == TranslateTextToJapanese(summaries["summary_long"], answer)
      payloadSummaries ==
        IF translated # "" THEN With(summaries, "summary_long", translated)
        ELSE FilterSummaryLong(summaries)
      forStore == FilterSummaryLong(payloadSummaries)
  IN IF isDetail THEN forStore ELSE Without(forStore, "summary_long")

\* put_summary: the payload as it leaves it, and the item it puts.
PutSummaryResult(event, answer) ==
  LET isDetail == ResolveDetailContext(DetailView(event)).isDetail
      link == EnsureSourceLink(event["source"]["id"], event["item"]["link"])
      forStore == PrepareSummaryPayload(event["summaries"], isDetail, answer)
      after == With(With(event, "item", With(event["item"], "link", link)),
                    "summaries", forStore)
      longValue == IF isDetail THEN Strip(forStore["summary_long"]) ELSE ""
  IN [payload |-> after,
      item |-> [pk |-> event["source"]["id"], sk |-> event["item"]["id"],
                link |-> link, summaries |-> forStore,
                metrics |-> Get(event, "metrics"),
                detail_status |-> IF isDetail /\ longValue # ""
                                    THEN "ready" ELSE "partial"]]

\* postprocess.handle: what it returns (no raw bucket configured).
PostprocessHandle(event, answer) ==
  [status |-> "stored", summary_table |-> "table", raw_archive_key |-> PyNone,
   input |-> Without(PutSummaryResult(event, answer).payload, "article_body")]

\* The messages the dispatcher and the detail API put on the queue.
EnvLinks ==
  {link \in RawLinks :
     /\ link.scheme = "https" /\ link.path = "/a" /\ link.fragment = ""
     /\ link.netloc \in {"www.straitstimes.com", "www.bbc.com:443"}
     /\ link.query \in {{}, {<<"utm_source", "rss">>, <<"id", "1">>}}}
EnvContexts ==
  {<<>>, [reason |-> "ingest"],
   [reason |-> "detail", requested_at |-> RequestedAtValue]}
EnvPayloads ==
  {LET base == [source |-> [id |-> source],
                item |-> [id |-> "item-1", link |-> link, title |-> "A cat"]]
       withContext == IF context = <<>> THEN base
                      ELSE With(base, "request_context", context)
       withFlag == IF flag THEN With(withContext, "generate_detailed_summary", TRUE)
                   ELSE withContext
   IN IF endpoint THEN With(withFlag, "endpoint", [url |-> "feed"]) ELSE withFlag :
     source \in Sources, link \in EnvLinks, context \in EnvContexts,
     flag \in BOOLEAN, endpoint \in BOOLEAN}

\* What the model's answer parses to: a summary and facts, in or not in the
\* articles.
EnvModelOutputs ==
  [summary_long : {"The cat!", "$% zzz"},
   diff_points : {<<>>, <<"Cat sat">>, <<"Cat sat", "dog ran">>}]

EnvInit ==
  /\ eCurrent \in EnvPayloads
  /\ eStep = 1
  /\ eIn = <<>>
  /\ eOut = <<>>
  /\ ePut = <<>>
  /\ eFetched \in Articles
  /\ eModel \in EnvModelOutputs
  /\ eTranslation \in {"", "$%"}

\* The stage the loop of _run_pipeline invokes next.
EnvStage == STEP_DEFINITIONS[eStep]

\* The loop invokes the collector, which raises if it obtained no text.
InvokeCollector ==
  /\ eStep \in DOMAIN STEP_DEFINITIONS /\ EnvStage = "collector"
  /\ eIn' = Append(eIn, eCurrent)
  /\ IF eFetched = ""
       THEN /\ eStep' = 0
            /\ UNCHANGED <<eCurrent, eOut>>
       ELSE /\ eCurrent' = CollectorHandle(eCurrent, eFetched)
            /\ eOut' = Append(eOut, CollectorHandle(eCurrent, eFetched))
            /\ eStep' = eStep + 1
  /\ UNCHANGED <<ePut, eFetched, eModel, eTranslation>>
  /\ UNCHANGED notEnv

InvokePreprocessor ==
  /\ eStep \in DOMAIN STEP_DEFINITIONS /\ EnvStage = "preprocessor"
  /\ eIn' = Append(eIn, eCurrent)
  /\ eCurrent' = EnrichEvent(eCurrent)
  /\ eOut' = Append(eOut, EnrichEvent(eCurrent))
  /\ eStep' = eStep + 1
  /\ UNCHANGED <<ePut, eFetched, eModel, eTranslation>>
  /\ UNCHANGED notEnv

InvokeSummarizer ==
  /\ eStep \in DOMAIN STEP_DEFINITIONS /\ EnvStage = "summarizer"
  /\ eIn' = Append(eIn, eCurrent)
  /\ eCurrent' = SummarizerResult(eCurrent, eModel)
  /\ eOut' = Append(eOut, SummarizerResult(eCurrent, eModel))
  /\ eStep' = eStep + 1
  /\ UNCHANGED <<ePut, eFetched, eModel, eTranslation>>
  /\ UNCHANGED notEnv

InvokePostprocess ==
  /\ eStep \in DOMAIN STEP_DEFINITIONS /\ EnvStage = "postprocess"
  /\ eIn' = Append(eIn, eCurrent)
  /\ ePut' = PutSummaryResult(eCurrent, eTranslation).item
  /\ eCurrent' = PostprocessHandle(eCurrent, eTranslation)
  /\ eOut' = Append(eOut, PostprocessHandle(eCurrent, eTranslation))
  /\ eStep' = eStep + 1
  /\ UNCHANGED <<eFetched, eModel, eTranslation>>
  /\ UNCHANGED notEnv

EnvNext ==
  InvokeCollector \/ InvokePreprocessor \/ InvokeSummarizer \/ InvokePostprocess

InitEnvelope == EnvInit /\ EnvAlone

SpecEnvelope == InitEnvelope /\ [][EnvNext]_vars

\* The item has been put in the summary table.
Stored == ePut # <<>>

\* C18: every fact of a summary that reaches the store occurs in the text of
\* the source article.
C18_StoredFactsOccurInArticle ==
  Stored =>
    \A k \in DOMAIN ePut["summaries"]["diff_points"] :
      Contains(Lower(eFetched), Lower(Strip(ePut["summaries"]["diff_points"][k])))

\* C19: the envelope is additive-only: every field of a stage's input is in
\* that stage's output with the same value.
C19_StagesOnlyAddFields ==
  \A k \in DOMAIN eOut :
    \A field \in DOMAIN eIn[k] :
      /\ field \in DOMAIN eOut[k]
      /\ eOut[k][field] = eIn[k][field]

(***************************************************************************)
(* collector._extract_article_text and the part of collector.handle that    *)
(* chooses normalized_body.  A text is the strategy it came from and the    *)
(* length of its cleaned form; NoText is None.                              *)
(***************************************************************************)
NoText == [strategy |-> "none", len |-> 0]

\* The length from which a structured text is taken as the article.
MinArticleLen == 200

\* _extract_article_text
ExtractArticleText(bbcUrl, site, structured) ==
  IF bbcUrl /\ site # NoText THEN site
  ELSE IF structured # NoText /\ structured.len >= MinArticleLen THEN structured
  ELSE NoText

\* collector.handle, lines 485 to 504: the body from the page, then the feed
\* entry's text in place of a missing or short one.
NormalizedBody(extracted, structured, page, feedEntry) ==
  LET fromPage ==
        IF extracted # NoText THEN extracted
        ELSE IF structured # NoText
          THEN IF structured.len < MinArticleLen /\ MinArticleLen <= page.len
                 THEN page ELSE structured
        ELSE page
  IN IF feedEntry = NoText THEN fromPage
     ELSE IF fromPage = NoText \/ fromPage.len = 0 THEN feedEntry
     ELSE IF fromPage.len < MinArticleLen /\ feedEntry.len > fromPage.len
       THEN feedEntry
     ELSE fromPage

\* Texts the strategies find: none, a teaser, a whole article.  The page's
\* text holds the site-specific blocks' text.
SiteTexts == {NoText} \cup [strategy : {"site"}, len : {22, 250}]
StructuredTexts == {NoText} \cup [strategy : {"structured"}, len : {150, 199, 200, 619}]
PageTexts == [strategy : {"page"}, len : {0, 120, 900}]
FeedTexts == {NoText} \cup [strategy : {"feed"}, len : {60, 400}]

ExtractInit ==
  /\ xBbcUrl \in BOOLEAN
  /\ xSite \in SiteTexts
  /\ xStructured \in StructuredTexts
  /\ xPage \in {page \in PageTexts : xSite.len <= page.len}
  /\ xFeed \in FeedTexts
  /\ xPc = "start"
  /\ xExtracted = NoText
  /\ xBody = NoText

\* handle calls _extract_article_text on the page fetched.
ExtractFromPage ==
  /\ xPc = "start"
  /\ xExtracted' = ExtractArticleText(xBbcUrl, xSite, xStructured)
  /\ xPc' = "extracted"
  /\ UNCHANGED <<xBbcUrl, xSite, xStructured, xPage, xFeed, xBody>>
  /\ UNCHANGED notExtract

\* handle chooses normalized_body, and raises if there is none.
ChooseBody ==
  /\ xPc = "extracted"
  /\ xBody' = NormalizedBody(xExtracted, xStructured, xPage, xFeed)
  /\ xPc' = IF NormalizedBody(xExtracted, xStructured, xPage, xFeed).len = 0
              THEN "raised" ELSE "done"
  /\ UNCHANGED <<xBbcUrl, xSite, xStructured, xPage, xFeed, xExtracted>>
  /\ UNCHANGED notExtract

ExtractNext == ExtractFromPage \/ ChooseBody

InitExtract == ExtractInit /\ ExtractAlone

SpecExtract == InitExtract /\ [][ExtractNext]_vars

\* The first of the site-specific text (tried for a site URL) and the
\* structured-data text that has at least 200 characters.
C20_FirstSubstantial ==
  IF xBbcUrl /\ xSite.len >= 200 THEN xSite
  ELSE IF xStructured.len >= 200 THEN xStructured
  ELSE NoText

\* C20: extraction returns the first strategy result, site-specific then
\* structured-data, of at least 200 characters; a shorter result never ends
\* the chain.
C20_ReturnsFirstSubstantial ==
  xPc # "start" =>
    /\ xExtracted = C20_FirstSubstantial
    /\ xExtracted # NoText => xExtracted.len >= 200

(***************************************************************************)
(* collector._extract_bbc_article.  A text is the sequence of its lines;    *)
(* "" is a blank line.                                                      *)
(***************************************************************************)
\* The line from which the rest of the article is cut ("Share this page.*").
ShareMarker == "Share this page"

\* "\n\n".join(paragraphs): the paragraphs' lines, a blank line between two
\* paragraphs.
RECURSIVE JoinParagraphs(_)
JoinParagraphs(paragraphs) ==
  IF paragraphs = <<>> THEN <<>>
  ELSE IF Len(paragraphs) = 1 THEN Head(paragraphs)
  ELSE Head(paragraphs) \o <<"">> \o JoinParagraphs(Tail(paragraphs))

\* re.sub(r"Share this page.*", "", article) with DOTALL: the text before the
\* first marker; the marker's line is left empty.
CutAtShare(lines) ==
  IF \A k \in DOMAIN lines : lines[k] # ShareMarker THEN lines
  ELSE LET first == CHOOSE k \in DOMAIN lines :
                      /\ lines[k] = ShareMarker
                      /\ \A j \in 1..(k - 1) : lines[j] # ShareMarker
       IN SubSeq(lines, 1, first - 1) \o <<"">>

\* The loop over the lines: a blank line is kept, a line equal to the last
\* one kept (cleaned[-1]) is dropped.
RECURSIVE CollapseRepeats(_, _)
CollapseRepeats(lines, cleaned) ==
  IF lines = <<>> THEN cleaned
  ELSE LET stripped == Strip(Head(lines))
       IN IF stripped = ""
            THEN CollapseRepeats(Tail(lines), Append(cleaned, ""))
          ELSE IF cleaned # <<>> /\ stripped = cleaned[Len(cleaned)]
            THEN CollapseRepeats(Tail(lines), cleaned)
          ELSE CollapseRepeats(Tail(lines), Append(cleaned, stripped))

\* "\n".join(cleaned).strip(): without the blank lines at both ends.
RECURSIVE StripBlankLines(_)
StripBlankLines(lines) ==
  IF lines = <<>> THEN <<>>
  ELSE IF Head(lines) = "" THEN StripBlankLines(Tail(lines))
  ELSE IF lines[Len(lines)] = "" THEN StripBlankLines(SubSeq(lines, 1, Len(lines) - 1))
  ELSE lines

\* _extract_bbc_article on the blocks' texts; <<>> is None.
ExtractBbcArticle(blocks) ==
  LET paragraphs == SelectSeq(blocks, LAMBDA p : p # <<>>)
  IN IF paragraphs = <<>> THEN <<>>
     ELSE StripBlankLines(CollapseRepeats(CutAtShare(JoinParagraphs(paragraphs)),
                                          <<>>))

\* Most text-block elements in a page, and most lines in one.
MaxBlocks == 2
MaxBlockLines == 2

BlockLines == {"Para one.", "Para two.", ShareMarker}
BlockTexts == UNION {[1..n -> BlockLines] : n \in 0..MaxBlockLines}

BbcInit ==
  /\ bBlocks \in UNION {[1..n -> BlockTexts] : n \in 0..MaxBlocks}
  /\ bPc = "start"
  /\ bArticle = <<>>

ExtractBbc ==
  /\ bPc = "start"
  /\ bArticle' = ExtractBbcArticle(bBlocks)
  /\ bPc' = "done"
  /\ UNCHANGED bBlocks
  /\ UNCHANGED notBbc

BbcNext == ExtractBbc

InitBbc == BbcInit /\ BbcAlone

SpecBbc == InitBbc /\ [][BbcNext]_vars

\* C21: two consecutive text-block elements with the same text give that
\* paragraph once in the extracted article.
C21_RepeatedBlockOnce ==
  (/\ bPc = "done"
   /\ Len(bBlocks) = 2
   /\ bBlocks[1] = bBlocks[2]
   /\ Len(bBlocks[1]) = 1
   /\ bBlocks[1][1] # ShareMarker)
  => bArticle = bBlocks[1]

(***************************************************************************)
(* collector.handle, lines 513 to 520: the article body cut to              *)
(* MAX_ARTICLE_BYTES bytes of UTF-8.  A character is named by its width in  *)
(* UTF-8; a byte is <<character, position in the character's encoding>>.    *)
(***************************************************************************)
Chars == {"a1", "e2", "j3", "x4"}
Width(char) ==
  CASE char = "a1" -> 1 [] char = "e2" -> 2 [] char = "j3" -> 3 [] OTHER -> 4

\* str.encode("utf-8")
RECURSIVE EncodeUtf8(_)
EncodeUtf8(text) ==
  IF text = <<>> THEN <<>>
  ELSE [pos \in 1..Width(Head(text)) |-> <<Head(text), pos>>]
         \o EncodeUtf8(Tail(text))

\* Do the bytes begin with the whole encoding of one character.
WholeCharAhead(bytes) ==
  /\ bytes # <<>>
  /\ bytes[1][2] = 1
  /\ Len(bytes) >= Width(bytes[1][1])
  /\ \A pos \in 1..Width(bytes[1][1]) : bytes[pos] = <<bytes[1][1], pos>>

\* A decoder that makes a character of a lead byte whatever follows it.
RECURSIVE DecodeUtf8_KeepCut(_)
DecodeUtf8_KeepCut(bytes) ==
  IF bytes = <<>> THEN <<>>
  ELSE IF bytes[1][2] = 1
    THEN <<bytes[1][1]>>
           \o DecodeUtf8_KeepCut(SubSeq(bytes, Min(Len(bytes), Width(bytes[1][1])) + 1,
                                         Len(bytes)))
  ELSE DecodeUtf8_KeepCut(Tail(bytes))

\* bytes.decode("utf-8", errors="ignore"): whole encodings become their
\* characters, other bytes are dropped.
RECURSIVE DecodeUtf8Ignore(_)
DecodeUtf8Ignore(bytes) ==
  IF bytes = <<>> THEN <<>>
  ELSE IF WholeCharAhead(bytes)
    THEN <<bytes[1][1]>>
           \o DecodeUtf8Ignore(SubSeq(bytes, Width(bytes[1][1]) + 1, Len(bytes)))
  ELSE DecodeUtf8Ignore(Tail(bytes))

\* The cap of collector.handle.
CapArticleBody(body, maxBytes) ==
  LET raw_bytes == EncodeUtf8(body)
  IN IF Len(raw_bytes) > maxBytes
       THEN DecodeUtf8Ignore(SubSeq(raw_bytes, 1, maxBytes))
       ELSE body

\* Most characters in a body, and the largest byte ceiling configured.
MaxBodyChars == 3
MaxByteCeiling == 6

TruncInit ==
  /\ tBody \in UNION {[1..n -> Chars] : n \in 1..MaxBodyChars}
  /\ tMax \in 0..MaxByteCeiling
  /\ tPc = "start"
  /\ tOut = <<>>

\* handle caps the body it obtained.
CapBody ==
  /\ tPc = "start"
  /\ tOut' = CapArticleBody(tBody, tMax)
  /\ tPc' = "done"
  /\ UNCHANGED <<tBody, tMax>>
  /\ UNCHANGED notTrunc

TruncNext == CapBody

InitTrunc == TruncInit /\ TruncAlone

SpecTrunc == InitTrunc /\ [][TruncNext]_vars

\* Bytes of a text in UTF-8.
RECURSIVE C22_Bytes(_)
C22_Bytes(text) ==
  IF text = <<>> THEN 0 ELSE Width(Head(text)) + C22_Bytes(Tail(text))

\* C22: the body returned has at most MAX_ARTICLE_BYTES bytes in UTF-8 and
\* is the longest prefix of whole characters of the body that fits.
C22_LongestWholePrefix ==
  tPc = "done" =>
    /\ Len(tOut) <= Len(tBody)
    /\ tOut = SubSeq(tBody, 1, Len(tOut))
    /\ C22_Bytes(tOut) <= tMax
    /\ Len(tOut) < Len(tBody) =>
         C22_Bytes(SubSeq(tBody, 1, Len(tOut) + 1)) > tMax

\* A body has been cut inside a multi-byte character: the character is left
\* out whole, and the one before it is kept.
C22_Witness ==
  /\ tPc = "done"
  /\ tBody = <<"a1", "j3", "a1">>
  /\ tMax = 3
  /\ tOut = <<"a1">>

(***************************************************************************)
(* summarizer.handle, lines 679 to 741, with the services it calls: the     *)
(* prompt secret (load_prompt), Cloudflare Workers AI (call_cloudflare) and *)
(* Bedrock (call_bedrock).  What each service meets is an input.            *)
(***************************************************************************)
SecretOutcomes == {"ok", "not_configured", "client_error"}
CloudflareOutcomes ==
  {"ok", "no_text", "no_account", "no_token", "request_exception",
   "http_429", "http_500", "non_json", "api_error"}
BedrockOutcomes == {"ok", "throttled", "client_error", "no_content"}

\* The exception load_prompt raises, "" for none.
LoadPromptError(outcome) ==
  CASE outcome = "not_configured" -> "ConfigurationError"
    [] outcome = "client_error" -> "ExternalServiceError"
    [] OTHER -> ""

\* The exception call_cloudflare raises, "" for none.
CallCloudflareError(outcome) ==
  IF outcome \in {"ok", "no_text"} THEN "" ELSE "ExternalServiceError"

\* str(exc) of the exception call_cloudflare raises.
CloudflareMessage(outcome) ==
  CASE outcome = "no_account" -> "Cloudflare account ID must be configured"
    [] outcome = "no_token" -> "Cloudflare API token must be configured"
    [] outcome = "request_exception" -> "Cloudflare request failed"
    [] outcome = "http_429" -> "Cloudflare returned HTTP 429"
    [] outcome = "http_500" -> "Cloudflare returned HTTP 500"
    [] outcome = "non_json" -> "Cloudflare returned non-JSON payload"
    [] outcome = "api_error" -> "Cloudflare API error"
    [] OTHER -> ""

\* The exception parse_cloudflare_response raises, "" for none.
ParseCloudflareError(outcome) ==
  IF outcome = "no_text" THEN "RuntimeError" ELSE ""

\* The exception call_bedrock raises, "" for none: throttling that outlasts
\* the attempts, and any other client error.
CallBedrockError(outcome) ==
  IF outcome \in {"throttled", "client_error"} THEN "ExternalServiceError" ELSE ""

\* The exception parse_bedrock_response raises, "" for none.
ParseBedrockError(outcome) ==
  IF outcome = "no_content" THEN "RuntimeError" ELSE ""

\* A handler that lets every failure of Cloudflare propagate.
CaughtForFallback_Nothing(error) == FALSE

\* except ExternalServiceError, around the call of Cloudflare.
CaughtForFallback(error) == error = "ExternalServiceError"

\* CLOUDFLARE_MODEL_ID, BEDROCK_MODEL_ID
CLOUDFLARE_MODEL_ID == "@cf/model"
BEDROCK_MODEL_ID == "bedrock-model"

\* What handle comes to: the calls made, and the dict returned or the
\* exception raised.
Returned(calls, result) == [calls |-> calls, pc |-> "returned", result |-> result]
Raised(calls, error) == [calls |-> calls, pc |-> "raised", result |-> [error |-> error]]

\* The end of handle: the quality check, and the dict returned.
HandleReturn(event, calls, summaries, llm_meta) ==
  Returned(calls,
           With(With(event, "summaries",
                     EnforceSummaryQuality(event["article_body"], summaries)),
                "llm", llm_meta))

\* handle from the call of Bedrock on; origin is the fallback_origin, <<>> when
\* Bedrock is the provider configured.
HandleBedrock(event, calls, bedrockOutcome, model, origin) ==
  LET called == Append(calls, "call_bedrock")
      meta == [provider |-> "bedrock", model_id |-> BEDROCK_MODEL_ID,
               raw_response |-> "bedrock response"]
  IN IF CallBedrockError(bedrockOutcome) # ""
       THEN Raised(called, CallBedrockError(bedrockOutcome))
     ELSE IF ParseBedrockError(bedrockOutcome) # ""
       THEN Raised(called, ParseBedrockError(bedrockOutcome))
     ELSE HandleReturn(event, called, model,
                       IF origin = <<>> THEN meta
                       ELSE With(meta, "fallback_origin", origin))

\* handle from the call of Cloudflare on.
HandleCloudflare(event, calls, cloudflareOutcome, bedrockOutcome, model) ==
  LET called == Append(calls, "call_cloudflare")
      error == IF CallCloudflareError(cloudflareOutcome) # ""
                 THEN CallCloudflareError(cloudflareOutcome)
                 ELSE ParseCloudflareError(cloudflareOutcome)
  IN IF error = ""
       THEN HandleReturn(event, called, model,
                         [provider |-> "cloudflare", model_id |-> CLOUDFLARE_MODEL_ID,
                          raw_response |-> "cloudflare response"])
     ELSE IF CaughtForFallback(error)
       THEN HandleBedrock(event, called, bedrockOutcome, model,
                          [provider |-> "cloudflare", model_id |-> CLOUDFLARE_MODEL_ID,
                           error |-> CloudflareMessage(cloudflareOutcome)])
     ELSE Raised(called, error)

\* A handler that loads the prompt before it classifies the request.
HandleWithProviders_PromptFirst(event, configured, secret, cloudflare, bedrock, model) ==
  IF "article_body" \notin DOMAIN event THEN Raised(<<>>, "ValueError")
  ELSE IF LoadPromptError(secret) # ""
    THEN Raised(<<"load_prompt">>, LoadPromptError(secret))
  ELSE IF ~ShouldGenerateDetailed(DetailView(event))
    THEN Returned(<<"load_prompt">>,
                  With(event, "summaries", GenerateLightweightSummary(event)))
  ELSE IF configured = "cloudflare"
    THEN HandleCloudflare(event, <<"load_prompt">>, cloudflare,
                          bedrock, model)
  ELSE HandleBedrock(event, <<"load_prompt">>, bedrock, model, <<>>)

\* summarizer.handle
HandleWithProviders(event, configured, secret, cloudflare, bedrock, model) ==
  IF "article_body" \notin DOMAIN event THEN Raised(<<>>, "ValueError")
  ELSE IF ~ShouldGenerateDetailed(DetailView(event))
    THEN Returned(<<>>, With(event, "summaries", GenerateLightweightSummary(event)))
  ELSE IF LoadPromptError(secret) # ""
    THEN Raised(<<"load_prompt">>, LoadPromptError(secret))
  ELSE IF configured = "cloudflare"
    THEN HandleCloudflare(event, <<"load_prompt">>, cloudflare,
                          bedrock, model)
  ELSE HandleBedrock(event, <<"load_prompt">>, bedrock, model, <<>>)

\* The events the preprocessor hands over, and one without article_body.
ProvEvents ==
  {LET base == [source |-> [id |-> "bbc"], item |-> [id |-> "item-1", title |-> ""]]
       withBody == IF body = <<>> THEN base ELSE With(base, "article_body", body[1])
       withContext == IF context = <<>> THEN withBody
                      ELSE With(withBody, "request_context", context)
   IN IF flag THEN With(withContext, "generate_detailed_summary", TRUE)
      ELSE withContext :
     body \in {<<>>} \cup {<<article>> : article \in Articles},
     context \in EnvContexts, flag \in BOOLEAN}
ProvModelOutputs ==
  {[summary_long |-> "The cat!", diff_points |-> <<"Cat sat">>],
   [summary_long |-> "$% zzz", diff_points |-> <<>>]}

ProvInit ==
  /\ sEvent \in ProvEvents
  /\ sProvider \in {"bedrock", "cloudflare", "openai"}
  /\ sSecret \in SecretOutcomes
  /\ sCloudflare \in CloudflareOutcomes
  /\ sBedrock \in BedrockOutcomes
  /\ sModel \in ProvModelOutputs
  /\ sCalls = <<>>
  /\ sPc = "start"
  /\ sResult = <<>>

\* One invocation of the summarizer Lambda.
InvokeSummarizerHandle ==
  /\ sPc = "start"
  /\ LET end == HandleWithProviders(sEvent, sProvider, sSecret, sCloudflare,
                                    sBedrock, sModel)
     IN /\ sCalls' = end.calls
        /\ sPc' = end.pc
        /\ sResult' = end.result
  /\ UNCHANGED <<sEvent, sProvider, sSecret, sCloudflare, sBedrock, sModel>>
  /\ UNCHANGED notProv

ProvNext == InvokeSummarizerHandle

InitProv == ProvInit /\ ProvAlone

SpecProv == InitProv /\ [][ProvNext]_vars

\* C23: when the call of Cloudflare, the provider configured, fails as
\* throttled (HTTP 429), Bedrock is called before handle ends, and when
\* Bedrock answers the output records provider bedrock with the fallback
\* origin: provider cloudflare and its error.
C23_ThrottledFallsBack ==
  (/\ sPc \in {"returned", "raised"}
   /\ Len(sCalls) >= 2
   /\ sCalls[2] = "call_cloudflare"
   /\ sCloudflare = "http_429")
  => /\ Len(sCalls) = 3
     /\ sCalls[3] = "call_bedrock"
     /\ sBedrock = "ok" =>
          /\ sPc = "returned"
          /\ sResult["llm"]["provider"] = "bedrock"
          /\ sResult["llm"]["fallback_origin"]["provider"] = "cloudflare"
          /\ sResult["llm"]["fallback_origin"]["error"] = CloudflareMessage("http_429")

\* Cloudflare was throttled and Bedrock answered in its place.
C23_Witness ==
  /\ sPc = "returned"
  /\ sCloudflare = "http_429"
  /\ sCalls = <<"load_prompt", "call_cloudflare", "call_bedrock">>
  /\ "fallback_origin" \in DOMAIN sResult["llm"]

\* C26: for a non-detail request handle calls no provider and not the prompt
\* secret, and returns the event with the lightweight summary of the article
\* body, whose facts list is empty, and with no llm entry.
C26_LightweightCallsNothing ==
  (/\ sPc # "start"
   /\ "article_body" \in DOMAIN sEvent
   /\ ~ShouldGenerateDetailed(DetailView(sEvent)))
  => /\ sCalls = <<>>
     /\ sPc = "returned"
     /\ sResult = With(sEvent, "summaries", sResult["summaries"])
     /\ sResult["summaries"]["diff_points"] = <<>>
     /\ sResult["summaries"]["summary_long"] =
          (IF Strip(sEvent["article_body"]) = "" THEN BodyMissingMessage
           ELSE Strip(sEvent["article_body"]))

\* An ingest request with an article body has been summarized.
C26_Witness ==
  /\ sPc = "returned"
  /\ sCalls = <<>>
  /\ "generate_detailed_summary" \notin DOMAIN sEvent
  /\ Get(sEvent, "request_context") = [reason |-> "ingest"]
  /\ sEvent["article_body"] = "The Cat sat"
  /\ sResult["summaries"] = [summary_long |-> "The Cat sat", diff_points |-> <<>>]

(***************************************************************************)
(* queue_worker.handle on an event with "Records": _process_records, lines  *)
(* 184 to 203, calling _run_pipeline for each record in turn.  A record is  *)
(* its body ("missing", "invalid_json", "not_object": valid JSON that is no *)
(* object, "object") and the stage of its run that fails, 0 for none.       *)
(***************************************************************************)
NumStages == Len(STEP_DEFINITIONS)

BatchRecordKinds ==
  {[body |-> "missing", failsAt |-> 0], [body |-> "invalid_json", failsAt |-> 0],
   [body |-> "not_object", failsAt |-> 0], [body |-> "object", failsAt |-> 0],
   [body |-> "object", failsAt |-> 1], [body |-> "object", failsAt |-> 3]}

\* Most records in a batch.
MaxBatch == 3

BatchInit ==
  /\ kRecords \in UNION {[1..n -> BatchRecordKinds] : n \in 0..MaxBatch}
  /\ kIndex = 1
  /\ kStarted = <<>>
  /\ kInvoked = <<>>
  /\ kResults = <<>>
  /\ kPc = "loop"
  /\ kProcessed = 0

\* The record the loop is at.
BatchRecord == kRecords[kIndex]

\* The stages _run_pipeline invokes for a record: all of them, or those up to
\* the one that fails.
StagesInvoked(record) ==
  IF record.failsAt = 0 THEN NumStages ELSE record.failsAt

\* A record without body, or whose body is not JSON: continue.
SkipRecord ==
  /\ kPc = "loop"
  /\ kIndex <= Len(kRecords)
  /\ BatchRecord.body \in {"missing", "invalid_json"}
  /\ kIndex' = kIndex + 1
  /\ UNCHANGED <<kRecords, kStarted, kInvoked, kResults, kPc, kProcessed>>
  /\ UNCHANGED notBatch

\* _run_pipeline returns for the record: its result is appended.
RunRecord ==
  /\ kPc = "loop"
  /\ kIndex <= Len(kRecords)
  /\ BatchRecord.body = "object"
  /\ BatchRecord.failsAt = 0
  /\ kStarted' = Append(kStarted, kIndex)
  /\ kInvoked' = kInvoked \o [stage \in 1..NumStages |-> <<kIndex, stage>>]
  /\ kResults' = Append(kResults, kIndex)
  /\ kIndex' = kIndex + 1
  /\ UNCHANGED <<kRecords, kPc, kProcessed>>
  /\ UNCHANGED notBatch

\* _run_pipeline raises for the record (a stage fails, or the payload is no
\* dict and payload.get raises): nothing catches it, handle raises.
RunRecordRaises ==
  /\ kPc = "loop"
  /\ kIndex <= Len(kRecords)
  /\ \/ BatchRecord.body = "not_object"
     \/ BatchRecord.body = "object" /\ BatchRecord.failsAt # 0
  /\ kStarted' = Append(kStarted, kIndex)
  /\ kInvoked' = kInvoked \o
       [stage \in 1..(IF BatchRecord.body = "not_object" THEN 0
                      ELSE StagesInvoked(BatchRecord)) |-> <<kIndex, stage>>]
  /\ kPc' = "raised"
  /\ UNCHANGED <<kRecords, kIndex, kResults, kProcessed>>
  /\ UNCHANGED notBatch

\* The loop is over: handle returns processed = len(results).
ReturnBatch ==
  /\ kPc = "loop"
  /\ kIndex > Len(kRecords)
  /\ kProcessed' = Len(kResults)
  /\ kPc' = "returned"
  /\ UNCHANGED <<kRecords, kIndex, kStarted, kInvoked, kResults>>
  /\ UNCHANGED notBatch

BatchNext == SkipRecord \/ RunRecord \/ RunRecordRaises \/ ReturnBatch

InitBatch == BatchInit /\ BatchAlone

SpecBatch == InitBatch /\ [][BatchNext]_vars

\* C24: when a batch invocation ends, every record whose body is valid JSON
\* has had its pipeline run, whatever became of the other records' runs, and
\* processed is the number of records run.
C24_EveryValidRecordRun ==
  kPc \in {"returned", "raised"} =>
    /\ \A i \in 1..Len(kRecords) :
         kRecords[i].body \in {"object", "not_object"} =>
           \E j \in 1..Len(kStarted) : kStarted[j] = i
    /\ kPc = "returned" => kProcessed = Len(kStarted)

(***************************************************************************)
(* Claims about the stage responses and about ingest-mode failures          *)
(* (specification Spec)                                                     *)
(***************************************************************************)

\* The responses of a stage that did not fail whose body is not the JSON of
\* an object.
C25_NotAnObject ==
  {"empty", "non_json", "json_string_object", "json_string_non_json",
   "json_string_non_object", "json_non_object"}

\* Those of them _invoke_lambda accepts: no body at all, read as {}, and the
\* JSON of an object encoded once more as a JSON string, unwrapped.
C25_Tolerated == {"empty", "json_string_object"}

RECURSIVE DropLeadingBlank(_)
DropLeadingBlank(text) ==
  IF text = <<>> THEN <<>>
  ELSE IF Strip(Head(text)) = "" THEN DropLeadingBlank(Tail(text))
  ELSE text
RECURSIVE DropTrailingBlank(_)
DropTrailingBlank(text) ==
  IF text = <<>> THEN <<>>
  ELSE IF Strip(text[Len(text)]) = "" THEN DropTrailingBlank(SubSeq(text, 1, Len(text) - 1))
  ELSE text
TextStrip(text) == DropTrailingBlank(DropLeadingBlank(text))

\* _contains_japanese on a text
TextContainsJapanese(text) == \E k \in 1..Len(text) : ContainsJapanese(text[k])

\* A variant of _extract_japanese_text that keeps every line.
ExtractJapaneseSegments_AllLines(text) ==
  LET kept == SelectSeq(text, LAMBDA line : Strip(line) # "")
  IN [k \in 1..Len(kept) |-> Strip(kept[k])]

\* _extract_japanese_text: the lines that hold a Japanese character, each
\* from that character on.  (Its last branch, for a value with a Japanese
\* character on no line, is never taken.)
ExtractJapaneseSegments(text) ==
  LET kept == SelectSeq(text, LAMBDA line : ContainsJapanese(Strip(line)))
  IN [k \in 1..Len(kept) |-> ExtractJapaneseText(kept[k])]

\* SUMMARY_FALLBACK_MESSAGE as a text.
FallbackText == <<SUMMARY_FALLBACK_MESSAGE>>

\* _translate_text_to_japanese, given the service's answer: <<>> for None.
TranslateText(text, answer) ==
  IF TextStrip(text) = <<>> \/ TextContainsJapanese(TextStrip(text)) THEN <<>>
  ELSE ExtractJapaneseSegments(TextStrip(answer))

\* The filter _prepare_summary_payload applies to a non-empty summary_long:
\* the value it leaves under the key.
FilteredLong(value) ==
  IF ExtractJapaneseSegments(value) # <<>> THEN ExtractJapaneseSegments(value)
  ELSE IF ~TextContainsJapanese(value) THEN FallbackText
  ELSE value

\* Does the record hold one of the statuses.
HasStatus(existing, statuses) ==
  /\ "detail_status" \in DOMAIN existing
  /\ existing["detail_status"] \in statuses

\* _prepare_summary_payload: summaries_for_store and summary_long_value.
PrepareSummaries(payloadSummaries, existing, isDetail, answer) ==
  LET existingLong == TextStrip(Get(Get(existing, "summaries"), "summary_long"))
      rawOriginal == TextStrip(Get(payloadSummaries, "summary_long"))
      translated == TranslateText(rawOriginal, answer)
      summariesPayload ==
        IF translated # <<>> THEN With(payloadSummaries, "summary_long", translated)
        ELSE IF rawOriginal # <<>>
          THEN With(payloadSummaries, "summary_long", FilteredLong(rawOriginal))
        ELSE payloadSummaries
      value == TextStrip(Get(summariesPayload, "summary_long"))
      filtered == IF value # <<>>
                    THEN With(summariesPayload, "summary_long", FilteredLong(value))
                    ELSE summariesPayload
      longValue == IF value # <<>> THEN FilteredLong(value) ELSE <<>>
  IN IF isDetail THEN [summaries |-> filtered, longValue |-> longValue]
     ELSE IF HasStatus(existing, {"ready", "stale"}) /\ existingLong # <<>>
       THEN [summaries |-> With(filtered, "summary_long", existingLong),
             longValue |-> existingLong]
     ELSE [summaries |-> Without(filtered, "summary_long"), longValue |-> <<>>]

\* _build_summary_item: pk, sk, link, summaries and the detail fields of the
\* item (title, metrics and the timestamps of creation are left out).
BuildSummaryItem(event, existing, summaries, detailReady, requestedAt, link) ==
  LET base == [pk |-> "SOURCE#" \o event["source"]["id"],
               sk |-> "ITEM#" \o event["item"]["id"],
               link |-> link,
               summaries |-> summaries]
      withStatus ==
        IF detailReady
          THEN With(With(base, "detail_status", "ready"), "detail_ready_at", "now")
        ELSE IF HasStatus(existing, {"ready"}) /\ "detail_ready_at" \in DOMAIN existing
          THEN With(With(base, "detail_status", "ready"),
                    "detail_ready_at", existing["detail_ready_at"])
        ELSE With(base, "detail_status", "partial")
  IN IF requestedAt # None THEN With(withStatus, "detail_requested_at", requestedAt)
     ELSE withStatus

\* put_summary: the item it puts.
PutSummaryItem(event, existing, answer) ==
  LET ctx == ResolveDetailContext(DetailView(event))
      link == EnsureSourceLink(event["source"]["id"], event["item"]["link"])
      prepared == PrepareSummaries(Get(event, "summaries"), existing,
                                   ctx.isDetail, answer)
  IN BuildSummaryItem(event, existing, prepared.summaries,
                      ctx.isDetail /\ prepared.longValue # <<>>,
                      ctx.requestedAt, link)

\* Most lines in a summary text.
MaxSummaryLines == 2

StoreLines == {"abc", "ab $% cd", "$%"}
StoreTexts == UNION {[1..n -> StoreLines] : n \in 0..MaxSummaryLines}
StoreSummaries ==
  {<<>>, [diff_points |-> <<"new fact">>]}
    \cup [summary_long : StoreTexts, diff_points : {<<>>, <<"new fact">>}]
StoreEvents ==
  {LET base == [source |-> [id |-> "bbc"],
                item |-> [id |-> "item-1", title |-> "A cat",
                          link |-> CHOOSE link \in EnvLinks : TRUE],
                summaries |-> summaries]
       withContext == IF context = <<>> THEN base
                      ELSE With(base, "request_context", context)
   IN IF flag THEN With(withContext, "generate_detailed_summary", TRUE)
      ELSE withContext :
     summaries \in StoreSummaries, context \in EnvContexts, flag \in BOOLEAN}
\* The record of the item: none, or one with a status, summaries and, when a
\* detail run made it, the time it became ready.
StoreExisting ==
  {<<>>}
    \cup [detail_status : {"partial", "pending", "failed", "stale"},
          summaries : {<<>>, [summary_long |-> <<"$% old">>,
                              diff_points |-> <<"old fact">>]}]
    \cup [detail_status : {"ready", "stale"},
          detail_ready_at : {"earlier"},
          summaries : {[summary_long |-> <<"$% old">>, diff_points |-> <<"old fact">>],
                       [summary_long |-> <<>>, diff_points |-> <<>>]}]
    \cup {[detail_status |-> "ready",
           summaries |-> [summary_long |-> <<"$% old">>,
                          diff_points |-> <<"old fact">>]]}

StoreInit ==
  /\ wPayload \in StoreEvents
  /\ wExisting \in StoreExisting
  /\ wAnswer \in {<<>>, <<"In Japanese: $% new">>}
  /\ wPc = "start"
  /\ wItem = <<>>

\* The run the store stage makes of the payload.
StoreIsDetail == ResolveDetailContext(DetailView(wPayload)).isDetail

\* put_summary in a detail invocation.
PutDetailSummary ==
  /\ wPc = "start"
  /\ StoreIsDetail
  /\ wItem' = PutSummaryItem(wPayload, wExisting, wAnswer)
  /\ wPc' = "done"
  /\ UNCHANGED <<wPayload, wExisting, wAnswer>>
  /\ UNCHANGED notStore

\* put_summary in any other invocation.
PutIngestSummary ==
  /\ wPc = "start"
  /\ ~StoreIsDetail
  /\ wItem' = PutSummaryItem(wPayload, wExisting, wAnswer)
  /\ wPc' = "done"
  /\ UNCHANGED <<wPayload, wExisting, wAnswer>>
  /\ UNCHANGED notStore

StoreNext == PutDetailSummary \/ PutIngestSummary

InitStore == StoreInit /\ StoreAlone

SpecStore == InitStore /\ [][StoreNext]_vars

\* C27: a non-detail store for an item with no existing ready record writes
\* detail_status = partial and an empty summaries map, whatever summaries the
\* payload carried.
C27_NonDetailStoresNoSummaries ==
  (wPc = "done" /\ ~StoreIsDetail /\ ~HasStatus(wExisting, {"ready"}))
  => /\ wItem["detail_status"] = "partial"
     /\ DOMAIN wItem["summaries"] = {}

\* C28: an ingest store for an item whose record is ready with a non-empty
\* summary leaves detail_status ready and the stored summary_long and
\* diff_points those of the record, not those of the payload.
C28_IngestKeepsReadySummaries ==
  (/\ wPc = "done"
   /\ ~StoreIsDetail
   /\ HasStatus(wExisting, {"ready"})
   /\ Get(wExisting["summaries"], "summary_long") # <<>>)
  => /\ wItem["detail_status"] = "ready"
     /\ Get(wItem["summaries"], "summary_long") = wExisting["summaries"]["summary_long"]
     /\ Get(wItem["summaries"], "diff_points") = wExisting["summaries"]["diff_points"]

\* C29: the summary_long a detail-mode store writes, when not empty, is the
\* fallback message, or each of its lines begins with a Japanese character
\* and is the rest of a line of the summary given (or of its translation)
\* from that line's first Japanese character on: no line without Japanese is
\* kept.
C29_DetailSummaryJapaneseOrFallback ==
  (wPc = "done" /\ StoreIsDetail /\ Get(wItem["summaries"], "summary_long") # <<>>)
  => LET stored == wItem["summaries"]["summary_long"]
         given == Get(Get(wPayload, "summaries"), "summary_long")
     IN \/ stored = FallbackText
        \/ /\ \A k \in 1..Len(stored) :
                /\ SubSeq(stored[k], 1, 1) \in JapaneseChars
                /\ \E line \in {given[j] : j \in 1..Len(given)}
                                 \cup {wAnswer[j] : j \in 1..Len(wAnswer)} :
                     /\ Len(line) >= Len(stored[k])
                     /\ stored[k] = SubSeq(line, Len(line) - Len(stored[k]) + 1, Len(line))
                     /\ ~ContainsJapanese(SubSeq(line, 1, Len(line) - Len(stored[k])))
           /\ Len(stored) = Cardinality({j \in 1..Len(given) : ContainsJapanese(given[j])})
                \/ ~TextContainsJapanese(given)

\* A detail store of an English line followed by a line with Japanese text in
\* it kept the second line from its first Japanese character on.
C29_Witness ==
  /\ wPc = "done"
  /\ StoreIsDetail
  /\ wPayload["summaries"] = [summary_long |-> <<"abc", "ab $% cd">>,
                              diff_points |-> <<>>]
  /\ wItem["summaries"]["summary_long"] = <<"$% cd">>
  /\ wItem["detail_status"] = "ready"

(***************************************************************************)
(* summarizer.call_bedrock, lines 482 to 515.  Times are in seconds.        *)
(***************************************************************************)
THROTTLE_ERROR_CODES ==
  {"ThrottlingException", "TooManyRequestsException", "ServiceUnavailableException"}

\* The defaults of the environment values.
BEDROCK_MAX_ATTEMPTS == 5
BEDROCK_BACKOFF_BASE_SECONDS == 5
BEDROCK_BACKOFF_MAX_SECONDS == 60

\* A longer base delay, with which the doubled delay reaches the maximum
\* within the attempts, and a base delay above the maximum.
BedrockLongBase == 20
BedrockOverMaxBase == 100

\* What one invoke_model call can do: answer, raise a ClientError with an
\* error code, or raise a BotoCoreError, which has no response and so no code.
InvokeOutcomes ==
  {[kind |-> "ok", code |-> ""], [kind |-> "BotoCoreError", code |-> ""],
   [kind |-> "ClientError", code |-> "ValidationException"]}
  \cup {[kind |-> "ClientError", code |-> c] : c \in THROTTLE_ERROR_CODES}

BedInit ==
  /\ gMax \in 1..BEDROCK_MAX_ATTEMPTS
  /\ gBase \in {BEDROCK_BACKOFF_BASE_SECONDS, BedrockLongBase, BedrockOverMaxBase}
  /\ gAttempt = 0
  /\ gBackoff = gBase
  /\ gSlept = <<>>
  /\ gOutcomes = <<>>
  /\ gPc = "run"
  /\ gResult = <<>>

\* The test of the except clause with every client error retried.
BedrockRetries_AnyCode(outcome, attempt, maxAttempts) ==
  outcome.kind = "ClientError" /\ attempt < maxAttempts

\* error_code in THROTTLE_ERROR_CODES and attempt < BEDROCK_MAX_ATTEMPTS
BedrockRetries(outcome, attempt, maxAttempts) ==
  outcome.code \in THROTTLE_ERROR_CODES /\ attempt < maxAttempts

\* backoff = min(backoff * 2, BEDROCK_BACKOFF_MAX_SECONDS)
NextBackoff(backoff) == Min(backoff * 2, BEDROCK_BACKOFF_MAX_SECONDS)

\* One iteration of the while loop.
InvokeModel(outcome) ==
  /\ gPc = "run"
  /\ gAttempt < gMax
  /\ gAttempt' = gAttempt + 1
  /\ gOutcomes' = Append(gOutcomes, outcome)
  /\ IF outcome.kind = "ok"
       THEN /\ gPc' = "returned"
            /\ gResult' = <<gAttempt + 1>>
            /\ UNCHANGED <<gBackoff, gSlept>>
     ELSE IF BedrockRetries(outcome, gAttempt + 1, gMax)
       THEN /\ gPc' = "run"
            /\ gSlept' = Append(gSlept, gBackoff)
            /\ gBackoff' = NextBackoff(gBackoff)
            /\ gResult' = gResult
       ELSE /\ gPc' = "raised"
            /\ gResult' = <<"ExternalServiceError">>
            /\ UNCHANGED <<gBackoff, gSlept>>
  /\ UNCHANGED <<gMax, gBase>>
  /\ UNCHANGED notBed

BedNext == \E outcome \in InvokeOutcomes : InvokeModel(outcome)

InitBed == BedInit /\ BedAlone

SpecBed == InitBed /\ [][BedNext]_vars

\* What C31 says of the attempts: every attempt but the last met a throttling
\* code; at most BEDROCK_MAX_ATTEMPTS attempts are made and none remains once
\* they are used up; a call that returns returns the response of its last
\* attempt, the first that succeeded; any other error, or a throttle on the
\* last attempt allowed, raises ExternalServiceError at once.
C31_Attempts ==
  /\ gAttempt <= gMax
  /\ Len(gOutcomes) = gAttempt
  /\ Len(gSlept) = (IF gPc = "run" THEN gAttempt ELSE gAttempt - 1)
  /\ \A k \in 1..Len(gOutcomes) :
       /\ (k < Len(gOutcomes) \/ gPc = "run") =>
            (gOutcomes[k].code \in THROTTLE_ERROR_CODES /\ k < gMax)
       /\ (gOutcomes[k].kind # "ok" /\ gOutcomes[k].code \notin THROTTLE_ERROR_CODES) =>
            (k = Len(gOutcomes) /\ gPc = "raised" /\ gResult = <<"ExternalServiceError">>)
       /\ (gOutcomes[k].code \in THROTTLE_ERROR_CODES /\ k = gMax) =>
            (gPc = "raised" /\ gResult = <<"ExternalServiceError">>)
       /\ gOutcomes[k].kind = "ok" =>
            (k = Len(gOutcomes) /\ gPc = "returned" /\ gResult = <<k>>)
  /\ gPc = "returned" => gOutcomes[gAttempt].kind = "ok"
  /\ gPc = "raised" => gOutcomes[gAttempt].kind # "ok"
  /\ gAttempt = gMax => gPc # "run"

\* 2 to the power n
RECURSIVE Pow2(_)
Pow2(n) == IF n = 0 THEN 1 ELSE 2 * Pow2(n - 1)

\* C31 as stated: the attempts are as above and the delay slept before the
\* k-th retry is the base delay doubled k - 1 times, up to
\* BEDROCK_BACKOFF_MAX_SECONDS.
C31_RetriesThrottlesDoublingToMax ==
  /\ C31_Attempts
  /\ \A k \in 1..Len(gSlept) :
       gSlept[k] = Min(gBase * Pow2(k - 1), BEDROCK_BACKOFF_MAX_SECONDS)

\* C31, amended: the attempts are as above; the delay slept before the first
\* retry is the base delay as configured and each later delay is twice the
\* one before it, capped at BEDROCK_BACKOFF_MAX_SECONDS; with a base delay
\* not above the maximum no delay is above it.
C31_RetriesThrottlesDoublingThenCapped ==
  /\ C31_Attempts
  /\ \A k \in 1..Len(gSlept) :
       /\ k = 1 => gSlept[k] = gBase
       /\ k > 1 => gSlept[k] = Min(2 * gSlept[k - 1], BEDROCK_BACKOFF_MAX_SECONDS)
       /\ gBase <= BEDROCK_BACKOFF_MAX_SECONDS => gSlept[k] <= BEDROCK_BACKOFF_MAX_SECONDS

\* Four throttled attempts whose delays reached the maximum, then an answer.
C31_Witness ==
  /\ gPc = "returned"
  /\ gMax = BEDROCK_MAX_ATTEMPTS
  /\ gAttempt = gMax
  /\ gSlept[Len(gSlept)] = BEDROCK_BACKOFF_MAX_SECONDS
  /\ gSlept[1] < BEDROCK_BACKOFF_MAX_SECONDS

(***************************************************************************)
(* checker.handle, lines 162 to 188, invoked again and again for one source *)
(* URL.  A header the HEAD response does not carry is "".                   *)
(***************************************************************************)
\* threshold_seconds of the event, the last moment of the clock, and the
\* most invocations.
ThresholdSeconds == 3
MaxClock == 6
MaxChecks == 3

HeadResponses == [etag : {"", "v1", "v2"}, last_modified : {"", "m1", "m2"}]

\* _should_fetch with a header that went missing counted as a change.
ShouldFetch_AnyDifference(existing, head, force, clock) ==
  IF force THEN TRUE
  ELSE IF existing = <<>> THEN TRUE
  ELSE IF clock - existing.checked_at >= ThresholdSeconds THEN TRUE
  ELSE head.etag # existing.etag \/ head.last_modified # existing.last_modified

\* _should_fetch
ShouldFetch(existing, head, force, clock) ==
  IF force THEN TRUE
  ELSE IF existing = <<>> THEN TRUE
  ELSE IF clock - existing.checked_at >= ThresholdSeconds THEN TRUE
  ELSE IF head.etag # "" /\ head.etag # existing.etag THEN TRUE
  ELSE IF head.last_modified # "" /\ head.last_modified # existing.last_modified
    THEN TRUE
  ELSE FALSE

\* _persist: the item put (its keys that _should_fetch reads).
Persist(head, clock) ==
  [etag |-> head.etag, last_modified |-> head.last_modified, checked_at |-> clock]

ChkInit ==
  /\ hNow = 0
  /\ hRecord \in {<<>>, Persist([etag |-> "v1", last_modified |-> "m1"], 0)}
  /\ hRuns = 0
  /\ hLast = <<>>
  /\ hTrueAt = <<>>

\* Time passes.
ClockTick ==
  /\ hNow < MaxClock
  /\ hNow' = hNow + 1
  /\ UNCHANGED <<hRecord, hRuns, hLast, hTrueAt>>
  /\ UNCHANGED notChk

\* handle returns: the record is read, the HEAD request answered, the
\* decision taken and the record written again.
CheckSource ==
  /\ hRuns < MaxChecks
  /\ \E head \in HeadResponses, force \in BOOLEAN :
       LET decision == ShouldFetch(hRecord, head, force, hNow)
       IN /\ hLast' = [existing |-> hRecord, head |-> head, force |-> force,
                       clock |-> hNow, decision |-> decision, trueAt |-> hTrueAt]
          /\ hRecord' = Persist(head, hNow)
          /\ hTrueAt' = IF decision THEN <<hNow>> ELSE hTrueAt
  /\ hRuns' = hRuns + 1
  /\ UNCHANGED hNow
  /\ UNCHANGED notChk

\* handle raises before _persist: the table cannot be read, or the HEAD
\* request gets no answer (URLError).
CheckSourceRaises ==
  /\ hRuns < MaxChecks
  /\ hRuns' = hRuns + 1
  /\ UNCHANGED <<hNow, hRecord, hLast, hTrueAt>>
  /\ UNCHANGED notChk

ChkNext == ClockTick \/ CheckSource \/ CheckSourceRaises

InitChk == ChkInit /\ ChkAlone

SpecChk == InitChk /\ [][ChkNext]_vars

\* C32: the fetch decision is true when force_fetch is set or no record
\* exists; otherwise it is true exactly when at least threshold_seconds have
\* passed since the stored checked_at, or the HEAD response carries an ETag
\* or a Last-Modified value that differs from the stored one.
C32_FetchDecision ==
  hLast # <<>> =>
    IF hLast.force \/ hLast.existing = <<>> THEN hLast.decision
    ELSE hLast.decision <=>
           \/ hLast.clock - hLast.existing.checked_at >= ThresholdSeconds
           \/ hLast.head.etag # "" /\ hLast.head.etag # hLast.existing.etag
           \/ /\ hLast.head.last_modified # ""
              /\ hLast.head.last_modified # hLast.existing.last_modified

\* A recent record and a HEAD response without ETag, whose Last-Modified is
\* the stored one: no fetch.
C32_Witness ==
  /\ hLast # <<>>
  /\ ~hLast.force
  /\ hLast.existing # <<>>
  /\ hLast.existing.etag = "v1"
  /\ hLast.head = [etag |-> "", last_modified |-> "m1"]
  /\ hLast.clock - hLast.existing.checked_at = ThresholdSeconds - 1
  /\ ~hLast.decision

\* C39: a check made threshold_seconds or more after the last check that
\* returned true returns true, however many checks were made in between.
C39_TrueAgainWithinThreshold ==
  (/\ hLast # <<>>
   /\ hLast.trueAt # <<>>
   /\ hLast.clock - hLast.trueAt[1] >= ThresholdSeconds)
  => hLast.decision

(***************************************************************************)
(* content_api and the worker runs (SpecDetailApi): which request the       *)
(* pending status belongs to.                                               *)
(***************************************************************************)
\* requested_at of the trigger whose conditional write last set
\* detail_status = pending (time does not go back); None before any.
PendingSince ==
  CHOOSE t \in {workers[r].requestedAt : r \in Requests} :
    \A r \in Requests : workers[r].requestedAt <= t

\* C33: a poll finds the pending item timed out only if at least
\* DETAIL_PENDING_TIMEOUT_SECONDS have passed since the trigger that put the
\* item into pending.
C33_TimeoutCountsFromPendingTrigger ==
  [][\A r \in Requests :
       (reqs[r].pc = "idle" /\ reqs'[r].pc = "mark")
       => /\ PendingSince # None
          /\ now - PendingSince >= DETAIL_PENDING_TIMEOUT_SECONDS]_vars

\* C34: while detail_status is pending, the trigger that set it last is
\* about to invoke the worker or has invoked it successfully.
C34_PendingHasWorker ==
  rec.status = "pending" =>
    \E r \in Requests :
      /\ reqs[r].started
      /\ workers[r].requestedAt = PendingSince
      /\ reqs[r].pc = "invoke" \/ workers[r].st # "none"

\* C35: a write of detail_status = failed changes a pending status only
\* (never a ready one), and the failure of a worker run changes only the
\* pending status that its own trigger set.
C35_FailedWriteOnlyOnOwnPending ==
  [][(rec'.status = "failed" /\ rec.status # "failed")
     => /\ rec.status = "pending"
        /\ \A r \in Requests :
             (workers[r].st = "running" /\ workers'[r].st = "finished")
             => workers[r].requestedAt = PendingSince]_vars

(***************************************************************************)
(* postprocess.put_summary (SpecStore): the detail_status it writes over    *)
(* the one of the record.                                                   *)
(***************************************************************************)
\* C36: a non-detail store writes the detail_status the record had; it
\* never writes another one over pending or failed.
C36_IngestKeepsDetailStatus ==
  (wPc = "done" /\ ~StoreIsDetail /\ "detail_status" \in DOMAIN wExisting)
  => wItem["detail_status"] = wExisting["detail_status"]

\* C37: a store over a record that is not ready, or is ready with a
\* non-empty summary_long, writes no record that is ready with an empty
\* summary_long: no sequence of stores leads to one.
C37_ReadyHasSummary ==
  (/\ wPc = "done"
   /\ HasStatus(wExisting, {"ready"})
        => TextStrip(Get(wExisting["summaries"], "summary_long")) # <<>>
   /\ wItem["detail_status"] = "ready")
  => TextStrip(Get(wItem["summaries"], "summary_long")) # <<>>

(***************************************************************************)
(* The orchestrator's classification of a run next to those of the          *)
(* summarizer and the store stage (SpecClassify).                           *)
(***************************************************************************)
\* collector.handle returns source, item, article_body, metrics and
\* request_context: generate_detailed_summary is not passed on to the stages
\* after it.
AfterCollector(p) == [p EXCEPT !.flag = "absent"]

\* C38: whatever payload the orchestrator was given for the run whose
\* summarizer and store stage received cPayload, when the orchestrator counts
\* it as a detail request the summarizer and the store stage did too.
C38_StagesAgreeWithOrchestrator ==
  Classified =>
    \A flag \in Flags :
      LET given == [cPayload EXCEPT !.flag = flag]
      IN (/\ AfterCollector(given) = cPayload
          /\ IsDetailRequest([flag |-> given.flag = "true", reason |-> given.reason]))
         => (cMode = "detail" /\ cStored.detail)

====
